---- MODULE Spec2Model ----
(***************************************************************************)
(* A model of kmud's concurrency substrate:                                *)
(*   - the database entity Area (database package): accessors and          *)
(*     mutators under the entity's reader/writer lock, commit on mutation; *)
(*   - the event bus (model.Register / Unregister / publish);              *)
(*   - Session.Exec: the dispatcher (getUserInput, execMenu,               *)
(*     processCommand, main loop) and the throttled reader goroutine.      *)
(***************************************************************************)
EXTENDS Integers, Sequences, FiniteSets, TLC

(***************************************************************************)
(* Bounds of the model.                                                    *)
(***************************************************************************)
\* total number of accessor / mutator calls the sessions make on the area
MaxCalls == 4
\* total number of events published
MaxEvents == 2
\* total number of lines the user types (network reads that return)
MaxInputs == 3
\* the clock advances in steps of TickMs milliseconds
TickMs == 100

None == "none"

(***************************************************************************)
(* Part 1: the entity Area and the sessions that call it.                  *)
(***************************************************************************)
\* sessions (goroutines) that hold a reference to the area
Procs == {"s1", "s2", "s3"}
\* values of Area.Name
Names == {"a", "b"}
\* values of Area.ZoneId
ZoneIds == {"z1"}

VARIABLES
    area,       \* the in-memory Area: None before NewArea, else [Name, ZoneId]
    areaState,  \* "absent" | "built" (fields set, not yet committed) | "live" (returned)
    lock,       \* DbObject's RWMutex: [writer |-> proc or None, readers |-> set of procs]
    store,      \* the store's record of the area: None, or [Name, ZoneId]
    apc,        \* apc[p]: where session p stands in its accessor / mutator call
    arg,        \* arg[p]: the argument of p's SetName call
    ret,        \* ret[p]: the value p's last accessor call returned
    changed,    \* changed[p]: p's SetName found name != self.Name
    commits,    \* commits[p]: commits made by p's current call
    commitLog,  \* the Names committed to the store, in order
    memLog,     \* the values the in-memory Name took, in order
    calls       \* number of calls started

entityVars == <<area, areaState, lock, store, apc, arg, ret, changed, commits,
                commitLog, memLog, calls>>


\* pcs at which a session is inside the write-locked section of SetName
WriterCS == {"sn_cmp", "sn_assign", "sn_commit", "sn_unlock"}
\* pcs at which a session is inside a read-locked section
ReaderCS == {"gn_read", "gn_unlock", "gz_read", "gz_unlock"}

Last(s) == s[Len(s)]

\* DbObject.ReadLock: blocks while a writer holds the lock
ReadLock(p) ==
    /\ lock.writer = None
    /\ lock' = [lock EXCEPT !.readers = @ \cup {p}]

ReadUnlock(p) ==
    lock' = [lock EXCEPT !.readers = @ \ {p}]

\* DbObject.WriteLock: blocks while any reader or writer holds the lock
WriteLock(p) ==
    /\ lock.writer = None
    /\ lock.readers = {}
    /\ lock' = [lock EXCEPT !.writer = p]

WriteUnlock(p) ==
    lock' = [lock EXCEPT !.writer = None]

\* commitObject: serialise the entire entity as it is now and store it
commitObject(p) ==
    /\ store' = area
    /\ commitLog' = Append(commitLog, area.Name)
    /\ commits' = [commits EXCEPT ![p] = @ + 1]

\* NewArea, lines 17-22: the fields are set and the DbObject initialised
NewArea_Build ==
    /\ areaState = "absent"
    /\ \E name \in Names, zone \in ZoneIds :
          /\ area' = [Name |-> name, ZoneId |-> zone]
          /\ memLog' = <<name>>
    /\ areaState' = "built"
    /\ UNCHANGED <<lock, store, apc, arg, ret, changed, commits, commitLog, calls>>

\* a NewArea that returns the area without committing it
NewArea_Commit_Skip ==
    /\ areaState = "built"
    /\ areaState' = "live"
    /\ UNCHANGED <<area, lock, store, apc, arg, ret, changed, commits, commitLog,
                   memLog, calls>>

\* NewArea, lines 23-25: commitObject(&area); return &area
NewArea_Commit ==
    /\ areaState = "built"
    /\ store' = area
    /\ commitLog' = Append(commitLog, area.Name)
    /\ areaState' = "live"
    /\ UNCHANGED <<area, lock, apc, arg, ret, changed, commits, memLog, calls>>

\* a session calls Area.SetName(name)
SetName_Call(p) ==
    /\ areaState = "live"
    /\ apc[p] = "idle"
    /\ calls < MaxCalls
    /\ \E name \in Names : arg' = [arg EXCEPT ![p] = name]
    /\ apc' = [apc EXCEPT ![p] = "sn_lock"]
    /\ changed' = [changed EXCEPT ![p] = FALSE]
    /\ commits' = [commits EXCEPT ![p] = 0]
    /\ calls' = calls + 1
    /\ UNCHANGED <<area, areaState, lock, store, ret, commitLog, memLog>>

\* a mutator that does not wait for the lock
SetName_WriteLock_NoWait(p) ==
    /\ apc[p] = "sn_lock"
    /\ apc' = [apc EXCEPT ![p] = "sn_cmp"]
    /\ UNCHANGED <<area, areaState, lock, store, arg, ret, changed, commits,
                   commitLog, memLog, calls>>

\* SetName line 40: self.WriteLock()
SetName_WriteLock(p) ==
    /\ apc[p] = "sn_lock"
    /\ WriteLock(p)
    /\ apc' = [apc EXCEPT ![p] = "sn_cmp"]
    /\ UNCHANGED <<area, areaState, store, arg, ret, changed, commits,
                   commitLog, memLog, calls>>

\* a mutator that commits whether or not the value changes
SetName_Compare_Always(p) ==
    /\ apc[p] = "sn_cmp"
    /\ changed' = [changed EXCEPT ![p] = (arg[p] /= area.Name)]
    /\ apc' = [apc EXCEPT ![p] = "sn_assign"]
    /\ UNCHANGED <<area, areaState, lock, store, arg, ret, commits,
                   commitLog, memLog, calls>>

\* SetName line 43: if name != self.Name
SetName_Compare(p) ==
    /\ apc[p] = "sn_cmp"
    /\ changed' = [changed EXCEPT ![p] = (arg[p] /= area.Name)]
    /\ apc' = [apc EXCEPT ![p] =
                  IF arg[p] /= area.Name THEN "sn_assign" ELSE "sn_unlock"]
    /\ UNCHANGED <<area, areaState, lock, store, arg, ret, commits,
                   commitLog, memLog, calls>>

\* SetName line 44: self.Name = name
SetName_Assign(p) ==
    /\ apc[p] = "sn_assign"
    /\ area' = [area EXCEPT !.Name = arg[p]]
    /\ memLog' = Append(memLog, arg[p])
    /\ apc' = [apc EXCEPT ![p] = "sn_commit"]
    /\ UNCHANGED <<areaState, lock, store, arg, ret, changed, commits,
                   commitLog, calls>>

\* a mutator that forgets to mark the object modified
SetName_objectModified_Skip(p) ==
    /\ apc[p] = "sn_commit"
    /\ apc' = [apc EXCEPT ![p] = "sn_unlock"]
    /\ UNCHANGED <<area, areaState, lock, store, arg, ret, changed, commits,
                   commitLog, memLog, calls>>

\* SetName line 45: objectModified(self), synchronously, under the write lock
SetName_objectModified(p) ==
    /\ apc[p] = "sn_commit"
    /\ commitObject(p)
    /\ apc' = [apc EXCEPT ![p] = "sn_unlock"]
    /\ UNCHANGED <<area, areaState, lock, arg, ret, changed, memLog, calls>>

\* SetName line 41: the deferred self.WriteUnlock()
SetName_WriteUnlock(p) ==
    /\ apc[p] = "sn_unlock"
    /\ WriteUnlock(p)
    /\ apc' = [apc EXCEPT ![p] = "idle"]
    /\ UNCHANGED <<area, areaState, store, arg, ret, changed, commits,
                   commitLog, memLog, calls>>

\* a session calls Area.GetName() or Area.GetZoneId()
Get_Call(p) ==
    /\ areaState = "live"
    /\ apc[p] = "idle"
    /\ calls < MaxCalls
    /\ \E f \in {"gn_lock", "gz_lock"} : apc' = [apc EXCEPT ![p] = f]
    /\ calls' = calls + 1
    /\ UNCHANGED <<area, areaState, lock, store, arg, ret, changed, commits,
                   commitLog, memLog>>

\* an accessor that does not wait for the lock
GetName_ReadLock_NoWait(p) ==
    /\ apc[p] = "gn_lock"
    /\ apc' = [apc EXCEPT ![p] = "gn_read"]
    /\ UNCHANGED <<area, areaState, lock, store, arg, ret, changed, commits,
                   commitLog, memLog, calls>>

\* GetName line 33: self.ReadLock()
GetName_ReadLock(p) ==
    /\ apc[p] = "gn_lock"
    /\ ReadLock(p)
    /\ apc' = [apc EXCEPT ![p] = "gn_read"]
    /\ UNCHANGED <<area, areaState, store, arg, ret, changed, commits,
                   commitLog, memLog, calls>>

\* GetName line 36: return self.Name (the value is copied under the lock)
GetName_Read(p) ==
    /\ apc[p] = "gn_read"
    /\ ret' = [ret EXCEPT ![p] = area.Name]
    /\ apc' = [apc EXCEPT ![p] = "gn_unlock"]
    /\ UNCHANGED <<area, areaState, lock, store, arg, changed, commits,
                   commitLog, memLog, calls>>

\* GetName line 34: the deferred self.ReadUnlock()
GetName_ReadUnlock(p) ==
    /\ apc[p] = "gn_unlock"
    /\ ReadUnlock(p)
    /\ apc' = [apc EXCEPT ![p] = "idle"]
    /\ UNCHANGED <<area, areaState, store, arg, ret, changed, commits,
                   commitLog, memLog, calls>>

\* GetZoneId line 50: self.ReadLock()
GetZoneId_ReadLock(p) ==
    /\ apc[p] = "gz_lock"
    /\ ReadLock(p)
    /\ apc' = [apc EXCEPT ![p] = "gz_read"]
    /\ UNCHANGED <<area, areaState, store, arg, ret, changed, commits,
                   commitLog, memLog, calls>>

\* GetZoneId line 53: return self.ZoneId
GetZoneId_Read(p) ==
    /\ apc[p] = "gz_read"
    /\ ret' = [ret EXCEPT ![p] = area.ZoneId]
    /\ apc' = [apc EXCEPT ![p] = "gz_unlock"]
    /\ UNCHANGED <<area, areaState, lock, store, arg, changed, commits,
                   commitLog, memLog, calls>>

\* GetZoneId line 51: the deferred self.ReadUnlock()
GetZoneId_ReadUnlock(p) ==
    /\ apc[p] = "gz_unlock"
    /\ ReadUnlock(p)
    /\ apc' = [apc EXCEPT ![p] = "idle"]
    /\ UNCHANGED <<area, areaState, store, arg, ret, changed, commits,
                   commitLog, memLog, calls>>

(***************************************************************************)
(* Part 2: text helpers of package utils (known from its tests).           *)
(* A line is a sequence of one-character strings.                          *)
(***************************************************************************)
Whitespace == {" ", "\t", "\n"}

\* strings.ToLower on one character
LowerChar(c) ==
    CASE c = "A" -> "a"
      [] c = "B" -> "b"
      [] c = "C" -> "c"
      [] c = "D" -> "d"
      [] c = "E" -> "e"
      [] c = "F" -> "f"
      [] c = "G" -> "g"
      [] c = "H" -> "h"
      [] c = "I" -> "i"
      [] c = "J" -> "j"
      [] c = "K" -> "k"
      [] c = "L" -> "l"
      [] c = "M" -> "m"
      [] c = "N" -> "n"
      [] c = "O" -> "o"
      [] c = "P" -> "p"
      [] c = "Q" -> "q"
      [] c = "R" -> "r"
      [] c = "S" -> "s"
      [] c = "T" -> "t"
      [] c = "U" -> "u"
      [] c = "V" -> "v"
      [] c = "W" -> "w"
      [] c = "X" -> "x"
      [] c = "Y" -> "y"
      [] c = "Z" -> "z"
      [] OTHER -> c

ToLower(s) == [i \in 1..Len(s) |-> LowerChar(s[i])]

RECURSIVE TrimLeft(_)
TrimLeft(s) ==
    IF s /= <<>> /\ Head(s) \in Whitespace THEN TrimLeft(Tail(s)) ELSE s

RECURSIVE TrimRight(_)
TrimRight(s) ==
    IF s /= <<>> /\ s[Len(s)] \in Whitespace
    THEN TrimRight(SubSeq(s, 1, Len(s) - 1)) ELSE s

\* utils.Simplify: surrounding whitespace removed, lower-cased (Test_Simplify)
Simplify(s) == ToLower(TrimRight(TrimLeft(s)))

\* utils.GetRawUserInput: the line as typed; "x" and "X" give "" (Test_GetRawUserInput)
GetRawUserInput(line) ==
    IF line = <<"x">> \/ line = <<"X">> THEN <<>> ELSE line

\* utils.GetUserInput: the raw input, simplified (Test_GetUserInput)
GetUserInput(line) == Simplify(GetRawUserInput(line))

\* strings.HasPrefix(input, "/")
HasSlashPrefix(s) == s /= <<>> /\ Head(s) = "/"

\* the first whitespace-separated word of s
RECURSIVE FirstWord(_)
FirstWord(s) ==
    IF s = <<>> \/ Head(s) \in Whitespace THEN <<>>
    ELSE <<Head(s)>> \o FirstWord(Tail(s))

RECURSIVE Fields(_)
Fields(s) ==
    LET t == TrimLeft(s)
        w == FirstWord(t)
    IN  IF t = <<>> THEN <<>>
        ELSE <<w>> \o Fields(SubSeq(t, Len(w) + 1, Len(t)))

\* utils.Argify: the command word and the list of arguments (Test_Argify)
Argify(s) ==
    LET f == Fields(s)
    IN  IF f = <<>> THEN [command |-> <<>>, args |-> <<>>]
        ELSE [command |-> Head(f), args |-> Tail(f)]

\* strings.Join(args, " ")
RECURSIVE Join(_)
Join(args) ==
    IF args = <<>> THEN <<>>
    ELSE IF Len(args) = 1 THEN Head(args)
    ELSE Head(args) \o <<" ">> \o Join(Tail(args))

\* the lines a user types
L_empty == <<>>
L_x == <<"x">>
L_logout == <<"l", "o", "g", "o", "u", "t">>
L_edit == <<"/", "e", "d", "i", "t">>
L_say == <<"/", "s", "a", "y">>
L_sayhi == <<"/", "s", "a", "y", " ", "h", "i">>
L_zap == <<"/", "z", "a", "p">>
L_1 == <<"1">>
L_2 == <<"2">>
L_3 == <<"3">>
L_N == <<" ", "N", " ">>

Lines == {L_empty, L_x, L_logout, L_edit, L_say, L_sayhi, L_zap,
          L_1, L_2, L_3, L_N}

(***************************************************************************)
(* Part 3: the event bus (package model) and one session (Session.Exec).   *)
(***************************************************************************)
\* characters; Me is the player of the session modelled in detail
Actors == {"A", "B", "C"}
Me == "A"
Others == Actors \ {Me}
\* the session of C runs throughout and is silent; the session of B starts and
\* ends once while the session of A runs
Visitors == {"B"}
Rooms == {"R1", "R2"}

\* userInputMode (iota)
CleanUserInput == 0
RawUserInput == 1

\* delay := time.Duration(200) * time.Millisecond
Delay == 200

MainPrompt == "> "
EditPrompt == "Select a section to edit: "
TitlePrompt == "Enter new title: "
DescPrompt == "Enter new description: "
MenuPrompt == "menu prompt"

VARIABLES
    registered, \* the actors that have a mailbox in the registry
    gone,       \* the visitors whose session has ended
    mailbox,    \* mailbox[a]: the pending events of a, oldest first
    roomOf,     \* roomOf[a]: the room character a is in
    published,  \* number of events published so far; the next event's id
    sent,       \* ids of the events enqueued in Me's mailbox, in order
    rendered,   \* ids of the events the dispatcher processed, in order
    exits,      \* the enabled exits, as <<room, direction>>
    roomTitle,  \* title of the session's room
    roomDesc,   \* description of the session's room
    dpc,        \* where the dispatcher goroutine stands
    site,       \* the call site of the current getUserInput call
    gMode,      \* getUserInput's inputMode
    gPrompt,    \* getUserInput's prompt
    input,      \* the value the current getUserInput call returned, "" until it returns
    quitMessage,\* the value the dispatcher re-raised
    rpc,        \* where the reader goroutine stands
    rMode,      \* reader's mode
    rPrompt,    \* reader's prompt
    rInput,     \* reader's input
    typed,      \* the line the user typed for the reader's current read
    rFail,      \* the value the reader panicked with
    sinceLast,  \* time.Since(lastTime) of the reader, counted up to Delay
    sleepLeft,  \* what is left of the reader's time.Sleep
    written,    \* what was written to the connection since the dispatcher last resumed
    nReads,     \* number of lines read from the connection
    nAccept,    \* number of inputs handed to the dispatcher
    sinceAccept,\* time since the latest hand-off, counted up to Delay
    span        \* time from the first to the latest hand-off, each gap counted up to Delay

busVars == <<registered, mailbox, roomOf, published, sent, gone>>
worldVars == <<exits, roomTitle, roomDesc>>
dispVars == <<dpc, site, gMode, gPrompt, input, quitMessage, rendered>>
readerVars == <<rpc, rMode, rPrompt, rInput, typed, rFail, sinceLast, sleepLeft, nReads>>
timeVars == <<nAccept, sinceAccept, span>>
sessVars == <<busVars, worldVars, dispVars, readerVars, timeVars, written>>

\* ---- event bus ----

\* Event.IsFor(receiver): a say is for the characters in the speaker's room,
\* a broadcast for everyone, a tell for its target
IsFor(e, a) ==
    CASE e.type = "say" -> roomOf[a] = e.room
      [] e.type = "broadcast" -> TRUE
      [] e.type = "tell" -> e.to = a
      [] OTHER -> FALSE

\* Event.ToString(player): the text of the event as the receiver sees it
Event_ToString(e, player) ==
    [who |-> IF e.from = player THEN "You" ELSE e.from,
     verb |-> e.type, text |-> e.text, id |-> e.id]

NewEvent(type, from, text) ==
    [id |-> published + 1, type |-> type, from |-> from,
     room |-> roomOf[from], text |-> text]

\* publish: the event is enqueued once in the mailbox of every registered
\* actor it is for
Publish(e) ==
    /\ mailbox' = [a \in Actors |->
                      IF a \in registered /\ IsFor(e, a)
                      THEN Append(mailbox[a], e) ELSE mailbox[a]]
    /\ sent' = IF Me \in registered /\ IsFor(e, Me) THEN Append(sent, e.id) ELSE sent
    /\ published' = published + 1

\* model.Say(character, message): an event to the occupants of the speaker's room
Say(from, text) == Publish(NewEvent("say", from, text))

\* model.BroadcastMessage(character, message): an event to everyone
BroadcastMessage(from, text) == Publish(NewEvent("broadcast", from, text))

\* model.Register(character): a new, empty mailbox for the character
Register(a) ==
    /\ registered' = registered \cup {a}
    /\ mailbox' = [mailbox EXCEPT ![a] = <<>>]

\* model.Unregister(channel): the mailbox is removed and discarded
Unregister(a) ==
    /\ registered' = registered \ {a}
    /\ mailbox' = [mailbox EXCEPT ![a] = <<>>]

\* ---- the other sessions, seen from the bus ----

\* another session starts: Exec registers its player
EnvRegister(a) ==
    /\ a \notin registered
    /\ a \notin gone
    /\ Register(a)
    /\ UNCHANGED <<gone, roomOf, published, sent, worldVars, dispVars, readerVars,
                   timeVars, written>>

\* another session ends: Exec's deferred call unregisters its player
EnvUnregister(a) ==
    /\ a \in registered
    /\ Unregister(a)
    /\ gone' = gone \cup {a}
    /\ UNCHANGED <<roomOf, published, sent, worldVars, dispVars, readerVars,
                   timeVars, written>>

\* another session's player says something in its room
EnvSay(a) ==
    /\ a \in registered
    /\ published < MaxEvents
    /\ Say(a, <<"h", "i">>)
    /\ UNCHANGED <<gone, registered, roomOf, worldVars, dispVars, readerVars,
                   timeVars, written>>

Min(a, b) == IF a < b THEN a ELSE b
Max(a, b) == IF a > b THEN a ELSE b

\* time passes: TickMs milliseconds
Tick ==
    /\ sinceLast' = Min(sinceLast + TickMs, Delay)
    /\ sleepLeft' = Max(sleepLeft - TickMs, 0)
    /\ sinceAccept' = Min(sinceAccept + TickMs, Delay)
    /\ UNCHANGED <<busVars, worldVars, dispVars, rpc, rMode, rPrompt, rInput, typed,
                   rFail, nReads, nAccept, span, written>>

\* ---- the dispatcher goroutine: Session.Exec ----

Item(kind, text) == [kind |-> kind, text |-> text]

\* a call of getUserInput(inputMode, prompt) from call site s
Call(mode, prompt, s) ==
    /\ dpc' = "send_mode"
    /\ input' = <<>>
    /\ gMode' = mode
    /\ gPrompt' = prompt
    /\ site' = s

\* the choices of the exit menu (toggleExitMenu) that the typed lines reach
MenuActions == {<<"n">>, <<"s">>}
\* ExitDirection.Opposite
Opposite(d) == IF d = <<"n">> THEN <<"s">> ELSE <<"n">>
\* model.M.GetRoomByLocation(room.NextLocation(direction), zone): R2 lies north of R1
Neighbour(r, d) ==
    CASE r = "R1" /\ d = <<"n">> -> "R2"
      [] r = "R2" /\ d = <<"s">> -> "R1"
      [] OTHER -> None

\* Room.SetExitEnabled(direction, enable) on a set of enabled exits
SetExitEnabled(ex, r, d, enable) ==
    IF enable THEN ex \cup {<<r, d>>} ELSE ex \ {<<r, d>>}

\* Exec ends without unregistering
Exec_Deferred_None ==
    UNCHANGED <<registered, mailbox>>

\* line 107: defer model.Unregister(eventChannel)
Exec_Deferred ==
    Unregister(Me)

\* an Exec that starts without registering its player
Exec_Start_NoRegister ==
    /\ dpc = "start"
    /\ rpc' = "init"
    /\ Call(RawUserInput, MainPrompt, "main")
    /\ written' = <<Item("line", "Welcome"), Item("room", "R1")>>
    /\ UNCHANGED <<busVars, worldVars, quitMessage, rendered,
                   rMode, rPrompt, rInput, typed, rFail, sinceLast, sleepLeft, nReads,
                   timeVars>>

\* lines 106-113, 733-777: register, start the reader, enter the main loop
Exec_Start ==
    /\ dpc = "start"
    /\ Register(Me)
    /\ rpc' = "init"
    /\ Call(RawUserInput, MainPrompt, "main")
    /\ written' = <<Item("line", "Welcome"), Item("room", "R1")>>
    /\ UNCHANGED <<gone, roomOf, published, sent, worldVars, quitMessage, rendered,
                   rMode, rPrompt, rInput, typed, rFail, sinceLast, sleepLeft, nReads,
                   timeVars>>

\* line 121: inputModeChannel <- inputMode, received by the reader at line 751
getUserInput_SendMode ==
    /\ dpc = "send_mode"
    /\ rpc = "wait_mode"
    /\ rMode' = gMode
    /\ rpc' = "wait_prompt"
    /\ dpc' = "send_prompt"
    /\ UNCHANGED <<busVars, worldVars, site, gMode, gPrompt, input, quitMessage,
                   rendered, rPrompt, rInput, typed, rFail, sinceLast, sleepLeft,
                   nReads, timeVars, written>>

\* a getUserInput that goes to its select without sending the prompt
getUserInput_SendPrompt_Skip ==
    /\ dpc = "send_prompt"
    /\ dpc' = "select"
    /\ UNCHANGED <<busVars, worldVars, site, gMode, gPrompt, input, quitMessage,
                   rendered, readerVars, timeVars, written>>

\* line 122: promptChannel <- prompt, received by the reader at line 752, which
\* goes on to line 753: input := ""
getUserInput_SendPrompt ==
    /\ dpc = "send_prompt"
    /\ rpc = "wait_prompt"
    /\ rPrompt' = gPrompt
    /\ rInput' = <<>>
    /\ typed' = <<>>
    /\ rpc' = "read"
    /\ dpc' = "select"
    /\ UNCHANGED <<busVars, worldVars, site, gMode, gPrompt, input, quitMessage,
                   rendered, rMode, rFail, sinceLast, sleepLeft,
                   nReads, timeVars, written>>

\* lines 126-127: case input := <-userInputChannel, sent by the reader at line 770
getUserInput_Input ==
    /\ dpc = "select"
    /\ rpc = "send_input"
    /\ input' = rInput
    /\ rpc' = "stamp"
    /\ dpc' = "ret"
    /\ nAccept' = nAccept + 1
    /\ sinceAccept' = 0
    /\ span' = IF nAccept = 0 THEN 0 ELSE span + sinceAccept
    /\ UNCHANGED <<busVars, worldVars, site, gMode, gPrompt, quitMessage, rendered,
                   rMode, rPrompt, rInput, typed, rFail, sinceLast, sleepLeft, nReads,
                   written>>

VARIABLES
    roomCopy,   \* the revision of the Room value session.room refers to
    targetChar  \* the character a whisper has looked up and not yet told

localVars == <<roomCopy, targetChar>>

\* session.room: the Room value the session holds for the room it is in
SessionRoom == [id |-> roomOf[Me], rev |-> roomCopy]

\* model.RoomUpdateEventType
RoomUpdateEventType == "roomupdate"

\* a processEvent that takes the room of every room update
processEvent_AnyRoom(event) ==
    [message |-> Event_ToString(event, Me),
     room |-> IF event.type = RoomUpdateEventType THEN event.Room ELSE SessionRoom]

\* lines 92-104: processEvent gives the event's text for this session's player
\* and, for the update of the session's room, makes the event's room
\* session.room
processEvent(event) ==
    [message |-> Event_ToString(event, Me),
     room |-> IF event.type = RoomUpdateEventType /\ event.Room.id = SessionRoom.id
              THEN event.Room
              ELSE SessionRoom]

\* the event case taking the newest event of the mailbox
getUserInput_Event_Newest ==
    /\ dpc = "select"
    /\ mailbox[Me] /= <<>>
    /\ LET event == mailbox[Me][Len(mailbox[Me])]
           message == Event_ToString(event, Me)
       IN  /\ mailbox' = [mailbox EXCEPT ![Me] = SubSeq(@, 1, Len(@) - 1)]
           /\ rendered' = Append(rendered, event.id)
           /\ written' = written \o <<Item("clear", ""), Item("line", message),
                                      Item("prompt", gPrompt)>>
    /\ UNCHANGED <<gone, registered, roomOf, published, sent, worldVars, dpc, site, gMode,
                   gPrompt, input, quitMessage, readerVars, timeVars>>

\* the event case ending the wait with an empty input
getUserInput_Event_Return ==
    /\ dpc = "select"
    /\ mailbox[Me] /= <<>>
    /\ LET event == Head(mailbox[Me])
           message == Event_ToString(event, Me)
       IN  /\ mailbox' = [mailbox EXCEPT ![Me] = Tail(@)]
           /\ rendered' = Append(rendered, event.id)
           /\ written' = written \o <<Item("clear", ""), Item("line", message)>>
    /\ input' = <<>>
    /\ dpc' = "ret"
    /\ UNCHANGED <<gone, registered, roomOf, published, sent, worldVars, site, gMode,
                   gPrompt, quitMessage, readerVars, timeVars>>

\* a wait that looks at the mailbox only once a line is on offer
getUserInput_Event_AfterInput ==
    /\ dpc = "select"
    /\ rpc = "send_input"
    /\ mailbox[Me] /= <<>>
    /\ LET event == Head(mailbox[Me])
           message == processEvent(event).message
       IN  /\ mailbox' = [mailbox EXCEPT ![Me] = Tail(@)]
           /\ rendered' = Append(rendered, event.id)
           /\ written' = IF message.text /= <<>>
                         THEN written \o <<Item("clear", ""), Item("line", message),
                                           Item("prompt", gPrompt)>>
                         ELSE written
    /\ UNCHANGED <<gone, registered, roomOf, published, sent, worldVars, dpc, site, gMode,
                   gPrompt, input, quitMessage, readerVars, timeVars>>

\* lines 128-134: case event := <-eventChannel: processEvent, then the message
\* is printed below a cleared line and the prompt printed again
getUserInput_Event ==
    /\ dpc = "select"
    /\ mailbox[Me] /= <<>>
    /\ LET event == Head(mailbox[Me])
           message == processEvent(event).message
       IN  /\ mailbox' = [mailbox EXCEPT ![Me] = Tail(@)]
           /\ roomCopy' = processEvent(event).room.rev
           /\ rendered' = Append(rendered, event.id)
           /\ written' = IF message.text /= <<>>
                         THEN written \o <<Item("clear", ""), Item("line", message),
                                           Item("prompt", gPrompt)>>
                         ELSE written
    /\ UNCHANGED <<gone, registered, roomOf, published, sent, worldVars, dpc, site, gMode,
                   gPrompt, input, quitMessage, readerVars, timeVars, targetChar>>

\* the failure is received and the wait goes on
getUserInput_Panic_Swallow ==
    /\ dpc = "select"
    /\ rpc = "send_panic"
    /\ rpc' = "dead"
    /\ UNCHANGED <<busVars, worldVars, dispVars, rMode, rPrompt, rInput, typed,
                   rFail, sinceLast, sleepLeft, nReads, timeVars, written>>

\* lines 135-136: case quitMessage := <-panicChannel: panic(quitMessage); the
\* panic leaves Exec through its deferred call
getUserInput_Panic ==
    /\ dpc = "select"
    /\ rpc = "send_panic"
    /\ quitMessage' = rFail
    /\ rpc' = "dead"
    /\ dpc' = "panicked"
    /\ Exec_Deferred
    /\ UNCHANGED <<gone, roomOf, published, sent, worldVars, site, gMode, gPrompt, input,
                   rendered, rMode, rPrompt, rInput, typed, rFail, sinceLast, sleepLeft,
                   nReads, timeVars, written>>

\* the command word and arguments of a top-level line that starts with "/"
Cmd == Argify(Tail(input))
C_edit == <<"e", "d", "i", "t">>
C_say == {<<"s", "a", "y">>, <<"s">>}

\* words of the other commands
W_teleport == <<"t", "e", "l", "e", "p", "o", "r", "t">>
W_tel == <<"t", "e", "l">>
W_map == <<"m", "a", "p">>
W_cash == <<"c", "a", "s", "h">>
W_give == <<"g", "i", "v", "e">>
W_create == <<"c", "r", "e", "a", "t", "e">>
W_destroyitem == <<"d", "e", "s", "t", "r", "o", "y", "i", "t", "e", "m">>
W_destroyroom == <<"d", "e", "s", "t", "r", "o", "y", "r", "o", "o", "m">>
W_zone == <<"z", "o", "n", "e">>
W_new == <<"n", "e", "w">>
W_rename == <<"r", "e", "n", "a", "m", "e">>
W_all == <<"a", "l", "l">>
W_list == <<"l", "i", "s", "t">>
W_broadcast == <<"b", "r", "o", "a", "d", "c", "a", "s", "t">>
W_b == <<"b">>

C_teleport == {W_teleport, W_tel}
C_broadcast == {W_broadcast, W_b}
W_whisper == <<"w", "h", "i", "s", "p", "e", "r">>
W_tell == <<"t", "e", "l", "l">>
W_w == <<"w">>
C_whisper == {W_whisper, W_tell, W_w}

\* the command words of processCommand's switch that the model knows
Commands ==
    {C_edit, W_map, W_zone, W_cash, W_create, W_destroyitem, W_destroyroom}
        \cup C_say \cup C_teleport \cup C_broadcast \cup C_whisper

AtReturn(s) == dpc = "ret" /\ site = s

\* a say that goes to everyone
processCommand_say_Everyone(args) ==
    IF Len(args) = 0
    THEN /\ written' = <<Item("error", "Nothing to say")>>
         /\ UNCHANGED <<mailbox, sent, published>>
    ELSE /\ BroadcastMessage(Me, Join(args))
         /\ written' = <<>>

\* lines 405-412: case "say", "s"
processCommand_say(args) ==
    IF Len(args) = 0
    THEN /\ written' = <<Item("error", "Nothing to say")>>
         /\ UNCHANGED <<mailbox, sent, published>>
    ELSE /\ Say(Me, Join(args))
         /\ written' = <<>>

\* a main loop that returns whatever the line
Main_Return_Always ==
    /\ AtReturn("main")
    /\ dpc' = "returned"
    /\ Exec_Deferred
    /\ UNCHANGED <<gone, roomOf, published, sent, worldVars, site, gMode, gPrompt, input,
                   quitMessage, rendered, readerVars, timeVars, written>>

\* lines 777-780: the main loop ends on "" or "logout"; Exec returns through
\* its deferred call
Main_Return ==
    /\ AtReturn("main")
    /\ input = <<>> \/ input = L_logout
    /\ dpc' = "returned"
    /\ Exec_Deferred
    /\ UNCHANGED <<gone, roomOf, published, sent, worldVars, site, gMode, gPrompt, input,
                   quitMessage, rendered, readerVars, timeVars, written>>

\* lines 781-782, 162-166: "/edit" prints the room editor and asks for a section
Main_Command_edit ==
    /\ AtReturn("main")
    /\ HasSlashPrefix(input)
    /\ Cmd.command = C_edit
    /\ written' = <<Item("roomeditor", "R1")>>
    /\ Call(CleanUserInput, EditPrompt, "edit")
    /\ UNCHANGED <<busVars, worldVars, quitMessage, rendered, readerVars,
                   timeVars>>

\* lines 781-782, 405-412, 776-777: "/say ..." and back to the main prompt
Main_Command_say ==
    /\ AtReturn("main")
    /\ HasSlashPrefix(input)
    /\ Cmd.command \in C_say
    /\ processCommand_say(Cmd.args)
    /\ Call(RawUserInput, MainPrompt, "main")
    /\ UNCHANGED <<gone, registered, roomOf, worldVars, quitMessage, rendered,
                   readerVars, timeVars>>

\* lines 728-730: any other command is reported as unrecognized
Main_Command_default ==
    /\ AtReturn("main")
    /\ HasSlashPrefix(input)
    /\ Cmd.command \notin Commands
    /\ written' = <<Item("error", "Unrecognized command")>>
    /\ Call(RawUserInput, MainPrompt, "main")
    /\ UNCHANGED <<busVars, worldVars, quitMessage, rendered, readerVars,
                   timeVars>>

\* lines 783-785: any other line is an action (session.handleAction)
Main_Action ==
    /\ AtReturn("main")
    /\ input /= <<>>
    /\ input /= L_logout
    /\ ~HasSlashPrefix(input)
    /\ written' = <<>>
    /\ Call(RawUserInput, MainPrompt, "main")
    /\ UNCHANGED <<busVars, worldVars, quitMessage, rendered, readerVars,
                   timeVars>>

\* lines 168-218: the section chosen in the room editor
Edit_Dispatch ==
    /\ AtReturn("edit")
    /\ CASE input = <<>> ->
              /\ written' = <<Item("room", "R1")>>
              /\ Call(RawUserInput, MainPrompt, "main")
         [] input = <<"1">> ->
              /\ written' = <<>>
              /\ Call(RawUserInput, TitlePrompt, "title")
         [] input = <<"2">> ->
              /\ written' = <<>>
              /\ Call(RawUserInput, DescPrompt, "desc")
         [] input = <<"3">> ->
              /\ written' = <<Item("menu", exits)>>
              /\ Call(CleanUserInput, MenuPrompt, "menu")
         [] OTHER ->
              /\ written' = <<Item("line", "Invalid selection")>>
              /\ Call(CleanUserInput, EditPrompt, "edit")
    /\ UNCHANGED <<busVars, worldVars, quitMessage, rendered, readerVars,
                   timeVars>>

\* lines 174-179: the new title
Title_Dispatch ==
    /\ AtReturn("title")
    /\ roomTitle' = IF input /= <<>> THEN input ELSE roomTitle
    /\ written' = <<Item("roomeditor", "R1")>>
    /\ Call(CleanUserInput, EditPrompt, "edit")
    /\ UNCHANGED <<busVars, exits, roomDesc, quitMessage, rendered,
                   readerVars, timeVars>>

\* lines 182-187: the new description
Desc_Dispatch ==
    /\ AtReturn("desc")
    /\ roomDesc' = IF input /= <<>> THEN input ELSE roomDesc
    /\ written' = <<Item("roomeditor", "R1")>>
    /\ Call(CleanUserInput, EditPrompt, "edit")
    /\ UNCHANGED <<busVars, exits, roomTitle, quitMessage, rendered,
                   readerVars, timeVars>>

\* lines 201-209: the exit is toggled, and the opposite exit of the adjacent room
ToggleExit(ex, r, d) ==
    LET enable == <<r, d>> \notin ex
        ex1 == SetExitEnabled(ex, r, d, enable)
        otherRoom == Neighbour(r, d)
    IN  IF otherRoom /= None
        THEN SetExitEnabled(ex1, otherRoom, Opposite(d), enable)
        ELSE ex1

\* lines 148-157, 190-213: execMenu's loop over the exit menu
Menu_Dispatch ==
    /\ AtReturn("menu")
    /\ IF input \in MenuActions \/ input = <<>>
       THEN IF input = <<>>
            THEN /\ written' = <<Item("roomeditor", "R1")>>
                 /\ Call(CleanUserInput, EditPrompt, "edit")
                 /\ UNCHANGED exits
            ELSE /\ exits' = ToggleExit(exits, "R1", input)
                 /\ written' = <<Item("menu", exits')>>
                 /\ Call(CleanUserInput, MenuPrompt, "menu")
       ELSE /\ written' = <<Item("menu", exits)>>
            /\ Call(CleanUserInput, MenuPrompt, "menu")
            /\ UNCHANGED exits
    /\ UNCHANGED <<busVars, roomTitle, roomDesc, quitMessage, rendered,
                   readerVars, timeVars>>

\* ---- the reader goroutine, lines 739-773 ----

\* line 746: lastTime := time.Now()
Reader_Init ==
    /\ rpc = "init"
    /\ sinceLast' = 0
    /\ rpc' = "wait_mode"
    /\ UNCHANGED <<busVars, worldVars, dispVars, rMode, rPrompt, rInput, typed,
                   rFail, sleepLeft, nReads, timeVars, written>>

\* lines 755-762: the prompt is written; an unknown mode panics
Reader_Prompt ==
    /\ rpc = "read"
    /\ IF rMode \in {CleanUserInput, RawUserInput}
       THEN /\ written' = Append(written, Item("prompt", rPrompt))
            /\ rpc' = "reading"
            /\ UNCHANGED rFail
       ELSE /\ rFail' = "Unhandled case in switch statement (userInputMode)"
            /\ rpc' = "send_panic"
            /\ UNCHANGED written
    /\ UNCHANGED <<busVars, worldVars, dispVars, rMode, rPrompt, rInput, typed,
                   sinceLast, sleepLeft, nReads, timeVars>>

\* a reader that reads raw whatever the mode
InputFor_Raw(mode, line) ==
    GetRawUserInput(line)

\* lines 755-760: the input in the mode of the request
InputFor(mode, line) ==
    IF mode = CleanUserInput THEN GetUserInput(line) ELSE GetRawUserInput(line)

\* lines 755-760: the user's line, one of S, arrives and is returned in the
\* requested mode
Reader_ReadFrom(S) ==
    /\ rpc = "reading"
    /\ nReads < MaxInputs
    /\ \E line \in S :
          /\ typed' = line
          /\ rInput' = InputFor(rMode, line)
    /\ nReads' = nReads + 1
    /\ rpc' = "throttle"
    /\ UNCHANGED <<busVars, worldVars, dispVars, rMode, rPrompt, rFail, sinceLast,
                   sleepLeft, timeVars, written>>

Reader_Read == Reader_ReadFrom(Lines)

\* bound on the length of the lines of TestLines
MaxLen == 3

\* the characters of the lines of TestLines
InputChars == {" ", "\t", "x", "X", "N", "a"}

\* every line of at most MaxLen characters
TestLines == UNION {[1..n -> InputChars] : n \in 0..MaxLen}

Reader_ReadTest == Reader_ReadFrom(TestLines)

\* lines 740-744: the read fails; the deferred function recovers the panic and
\* offers it on panicChannel
Reader_ReadFail ==
    /\ rpc = "reading"
    /\ rFail' = "connection lost"
    /\ rpc' = "send_panic"
    /\ UNCHANGED <<busVars, worldVars, dispVars, rMode, rPrompt, rInput, typed,
                   sinceLast, sleepLeft, nReads, timeVars, written>>

\* a reader that hands the input over at once
Reader_Throttle_NoSleep ==
    /\ rpc = "throttle"
    /\ rpc' = "send_input"
    /\ UNCHANGED <<busVars, worldVars, dispVars, rMode, rPrompt, rInput, typed,
                   rFail, sinceLast, sleepLeft, nReads, timeVars, written>>

\* lines 764-768: diff := time.Since(lastTime); if diff < delay, sleep delay - diff
Reader_Throttle ==
    /\ rpc = "throttle"
    /\ LET diff == sinceLast
       IN  IF diff < Delay
           THEN /\ sleepLeft' = Delay - diff
                /\ rpc' = "sleep"
           ELSE /\ rpc' = "send_input"
                /\ UNCHANGED sleepLeft
    /\ UNCHANGED <<busVars, worldVars, dispVars, rMode, rPrompt, rInput, typed,
                   rFail, sinceLast, nReads, timeVars, written>>

\* line 767: time.Sleep returns once the duration has passed
Reader_Wake ==
    /\ rpc = "sleep"
    /\ sleepLeft = 0
    /\ rpc' = "send_input"
    /\ UNCHANGED <<busVars, worldVars, dispVars, rMode, rPrompt, rInput, typed,
                   rFail, sinceLast, sleepLeft, nReads, timeVars, written>>

\* a reader that starts the next read right after the hand-off
Reader_Stamp_ReadAhead ==
    /\ rpc = "stamp"
    /\ sinceLast' = 0
    /\ rpc' = "read"
    /\ UNCHANGED <<busVars, worldVars, dispVars, rMode, rPrompt, rInput, typed,
                   rFail, sleepLeft, nReads, timeVars, written>>

\* line 771: lastTime = time.Now(), after the hand-off
Reader_Stamp ==
    /\ rpc = "stamp"
    /\ sinceLast' = 0
    /\ rpc' = "wait_mode"
    /\ UNCHANGED <<busVars, worldVars, dispVars, rMode, rPrompt, rInput, typed,
                   rFail, sleepLeft, nReads, timeVars, written>>

(***************************************************************************)
(* Part 6: the commands of the top-level loop (processCommand, lines       *)
(* 159-731) on a small world: the rooms R1 and R2, the zones, the items    *)
(* lying in the rooms and the player's cash.                               *)
(***************************************************************************)
\* bound on the number of lines typed at the top-level prompt
MaxCommands == 3

CL_tel == <<"/", "t", "e", "l">>
CL_tel_2 == <<"/", "t", "e", "l", " ", "0", " ", "1">>
CL_tel_ok == <<"/", "t", "e", "l", " ", "0", " ", "1", " ", "0">>
CL_tel_far == <<"/", "t", "e", "l", " ", "5", " ", "5", " ", "5">>
CL_tel_nan == <<"/", "t", "e", "l", " ", "0", " ", "y", " ", "0">>
CL_tel_b == <<"/", "t", "e", "l", " ", "b">>
CL_tel_q == <<"/", "t", "e", "l", " ", "q">>
CL_map == <<"/", "m", "a", "p">>
CL_map_all == <<"/", "m", "a", "p", " ", "a", "l", "l">>
CL_map_x == <<"/", "m", "a", "p", " ", "x">>
CL_map_0 == <<"/", "m", "a", "p", " ", "0">>
CL_map_2 == <<"/", "m", "a", "p", " ", "1", " ", "2">>
CL_cash == <<"/", "c", "a", "s", "h">>
CL_cash_ok == <<"/", "c", "a", "s", "h", " ", "g", "i", "v", "e", " ", "5">>
CL_cash_nan == <<"/", "c", "a", "s", "h", " ", "g", "i", "v", "e", " ", "x">>
CL_cash_take == <<"/", "c", "a", "s", "h", " ", "t", "a", "k", "e", " ", "5">>
CL_create == <<"/", "c", "r", "e", "a", "t", "e">>
CL_create_ok == <<"/", "c", "r", "e", "a", "t", "e", " ", "A", "x">>
CL_create_2 == <<"/", "c", "r", "e", "a", "t", "e", " ", "a", " ", "x">>
CL_ditem == <<"/", "d", "e", "s", "t", "r", "o", "y", "i", "t", "e", "m">>
CL_ditem_ax == <<"/", "d", "e", "s", "t", "r", "o", "y", "i", "t", "e", "m", " ", "a", "x">>
CL_droom == <<"/", "d", "e", "s", "t", "r", "o", "y", "r", "o", "o", "m">>
CL_droom_n == <<"/", "d", "e", "s", "t", "r", "o", "y", "r", "o", "o", "m", " ", "n">>
CL_droom_q == <<"/", "d", "e", "s", "t", "r", "o", "y", "r", "o", "o", "m", " ", "q">>
CL_b == <<"/", "b">>
CL_b_hi == <<"/", "b", " ", "h", "i">>
CL_zone_new_a == <<"/", "z", "o", "n", "e", " ", "n", "e", "w", " ", "a">>
CL_zone_new_b == <<"/", "z", "o", "n", "e", " ", "n", "e", "w", " ", "b">>
CL_zone_rename_a == <<"/", "z", "o", "n", "e", " ", "r", "e", "n", "a", "m", "e", " ", "a">>

\* the lines a user types at the top-level prompt, commands included
CmdLines ==
    {L_empty, L_logout, L_say, L_sayhi, L_zap, L_1,
     CL_tel, CL_tel_2, CL_tel_ok, CL_tel_far, CL_tel_nan, CL_tel_b, CL_tel_q, CL_map,
     CL_map_all, CL_map_x, CL_map_0, CL_map_2, CL_cash, CL_cash_ok, CL_cash_nan,
     CL_cash_take, CL_create, CL_create_ok, CL_create_2, CL_ditem, CL_ditem_ax,
     CL_droom, CL_droom_n, CL_droom_q, CL_b, CL_b_hi, CL_zone_new_a, CL_zone_new_b,
     CL_zone_rename_a}

VARIABLES
    cash,      \* the player's cash
    items,     \* the items of the world, as [room, name], in order of creation
    zones,     \* zones[i]: the name of the zone with id i
    roomZone,  \* roomZone[r]: the id of the zone room r belongs to, 0 for none
    myZone     \* session.zone: the id of the session's zone, 0 for the null zone

cmdVars == <<cash, items, zones, roomZone, myZone>>

\* strconv.Atoi: an optional sign and decimal digits, or an error
Digit == {"0", "1", "2", "3", "4", "5", "6", "7", "8", "9"}

DigitVal(c) ==
    CASE c = "0" -> 0 [] c = "1" -> 1 [] c = "2" -> 2 [] c = "3" -> 3
      [] c = "4" -> 4 [] c = "5" -> 5 [] c = "6" -> 6 [] c = "7" -> 7
      [] c = "8" -> 8 [] c = "9" -> 9

RECURSIVE Number(_)
Number(s) ==
    IF s = <<>> THEN 0 ELSE 10 * Number(SubSeq(s, 1, Len(s) - 1)) + DigitVal(s[Len(s)])

Atoi(tok) ==
    LET signed == tok /= <<>> /\ Head(tok) \in {"-", "+"}
        body == IF signed THEN Tail(tok) ELSE tok
        ok == body /= <<>> /\ \A i \in 1..Len(body) : body[i] \in Digit
    IN  [err |-> ~ok,
         val |-> IF ~ok THEN 0
                 ELSE IF signed /\ Head(tok) = "-" THEN 0 - Number(body)
                 ELSE Number(body)]

\* database.StringToDirection: the directions the model knows, or DirectionNone
StringToDirection(s) == IF s \in {<<"n">>, <<"s">>} THEN s ELSE None

\* the room model.M.CreateRoom makes for the zone with id i
ZoneRoom(i) == <<"Z1", "Z2", "Z3", "Z4", "Z5", "Z6">>[i]

\* Room.GetLocation: R2 lies north of R1; a zone's first room lies at the origin
Location(r) == IF r = "R2" THEN <<0, 1, 0>> ELSE <<0, 0, 0>>

\* Room.NextLocation(direction): one step to the north or to the south
NextLocation(r, d) ==
    LET loc == Location(r)
    IN  <<loc[1], IF d = <<"n">> THEN loc[2] + 1 ELSE loc[2] - 1, loc[3]>>

\* model.M.GetZoneByName(name): the id of a zone of that name, 0 for nil
GetZoneByName(name) ==
    IF \E i \in 1..Len(zones) : zones[i] = name
    THEN CHOOSE i \in 1..Len(zones) :
             /\ zones[i] = name
             /\ \A j \in 1..(i - 1) : zones[j] /= name
    ELSE 0

\* model.M.GetRoomsInZone(zone)
GetRoomsInZone(z) == {r \in DOMAIN roomZone : roomZone[r] = z}

\* model.M.GetRoomByLocation(loc, zone), None for nil
GetRoomByLocation(loc, z) ==
    IF \E r \in GetRoomsInZone(z) : Location(r) = loc
    THEN CHOOSE r \in GetRoomsInZone(z) : Location(r) = loc
    ELSE None

\* session.printRoom()
printRoom(r) == <<Item("room", r)>>

\* model.MoveCharacterToLocation(player, zone, loc) and lines 504-512: the
\* player is moved to the room at that location, or the error is printed
MoveCharacterToLocation(z, loc) ==
    LET newRoom == GetRoomByLocation(loc, z)
    IN  IF newRoom /= None
        THEN /\ roomOf' = [roomOf EXCEPT ![Me] = newRoom]
             /\ myZone' = z
             /\ written' = printRoom(newRoom)
        ELSE /\ written' = <<Item("error", "Invalid location")>>
             /\ UNCHANGED <<roomOf, myZone>>

\* a teleport that takes an argument that is no number for 0
processCommand_teleport_IgnoreErr(args) ==
    /\ CASE Len(args) = 1 ->
              LET newZone == GetZoneByName(args[1])
              IN  IF newZone = 0
                  THEN /\ written' = <<Item("error", "Zone not found")>>
                       /\ UNCHANGED <<roomOf, myZone>>
                  ELSE IF newZone = roomZone[roomOf[Me]]
                  THEN /\ written' = <<Item("line", "You're already in that zone")>>
                       /\ UNCHANGED <<roomOf, myZone>>
                  ELSE IF GetRoomsInZone(newZone) /= {}
                  THEN \E r \in GetRoomsInZone(newZone) :
                           MoveCharacterToLocation(newZone, Location(r))
                  ELSE MoveCharacterToLocation(newZone, <<0, 0, 0>>)
         [] Len(args) = 3 ->
              MoveCharacterToLocation(myZone,
                  <<Atoi(args[1]).val, Atoi(args[2]).val, Atoi(args[3]).val>>)
         [] OTHER ->
              /\ written' = <<Item("error", "Usage: /teleport [<zone>|<X> <Y> <Z>]")>>
              /\ UNCHANGED <<roomOf, myZone>>
    /\ UNCHANGED <<cash, items, zones, roomZone>>

\* lines 443-512: case "teleport", "tel"
processCommand_teleport(args) ==
    /\ CASE Len(args) = 1 ->
              LET newZone == GetZoneByName(args[1])
              IN  IF newZone = 0
                  THEN /\ written' = <<Item("error", "Zone not found")>>
                       /\ UNCHANGED <<roomOf, myZone>>
                  ELSE IF newZone = roomZone[roomOf[Me]]
                  THEN /\ written' = <<Item("line", "You're already in that zone")>>
                       /\ UNCHANGED <<roomOf, myZone>>
                  ELSE IF GetRoomsInZone(newZone) /= {}
                  THEN \E r \in GetRoomsInZone(newZone) :
                           MoveCharacterToLocation(newZone, Location(r))
                  ELSE MoveCharacterToLocation(newZone, <<0, 0, 0>>)
         [] Len(args) = 3 ->
              IF Atoi(args[1]).err \/ Atoi(args[2]).err \/ Atoi(args[3]).err
              THEN /\ written' = <<Item("error", "Usage: /teleport [<zone>|<X> <Y> <Z>]")>>
                   /\ UNCHANGED <<roomOf, myZone>>
              ELSE MoveCharacterToLocation(myZone,
                       <<Atoi(args[1]).val, Atoi(args[2]).val, Atoi(args[3]).val>>)
         [] OTHER ->
              /\ written' = <<Item("error", "Usage: /teleport [<zone>|<X> <Y> <Z>]")>>
              /\ UNCHANGED <<roomOf, myZone>>
    /\ UNCHANGED <<cash, items, zones, roomZone>>

\* lines 275-342: case "map": the map is printed, or the usage
processCommand_map(args) ==
    /\ LET args1 == IF Len(args) = 0 THEN <<<<"1", "0">>>> ELSE args
       IN  IF Len(args1) = 1
              /\ \/ (~Atoi(args1[1]).err /\ Atoi(args1[1]).val > 0)
                 \/ args1[1] = W_all
           THEN written' = <<Item("line", "map")>>
           ELSE written' = <<Item("error", "Usage: /map [<radius>|all|load <name>]")>>
    /\ UNCHANGED <<roomOf, cmdVars>>

\* lines 344-394: case "zone"
processCommand_zone(args) ==
    CASE Len(args) = 0 ->
           /\ written' = <<Item("line", IF myZone = 0 THEN "Currently in the null zone"
                                        ELSE "Current zone")>>
           /\ UNCHANGED <<roomOf, cmdVars>>
      [] Len(args) = 1 ->
           /\ written' = IF args[1] = W_list THEN <<Item("line", "Zones")>>
                         ELSE <<Item("error", "Usage: /zone [list|rename <name>|new <name>]")>>
           /\ UNCHANGED <<roomOf, cmdVars>>
      [] Len(args) = 2 /\ args[1] = W_rename ->
           LET zone == GetZoneByName(args[1])
               id == Len(zones) + 1
           IN  IF zone /= 0
               THEN /\ written' = <<Item("error", "A zone with that name already exists")>>
                    /\ UNCHANGED <<roomOf, cmdVars>>
               ELSE IF myZone = 0
               THEN /\ zones' = Append(zones, args[2])
                    /\ myZone' = id
                    /\ roomZone' = [r \in DOMAIN roomZone |->
                                       IF roomZone[r] = 0 THEN id ELSE roomZone[r]]
                    /\ written' = <<>>
                    /\ UNCHANGED <<roomOf, cash, items>>
               ELSE /\ zones' = [zones EXCEPT ![myZone] = args[2]]
                    /\ written' = <<>>
                    /\ UNCHANGED <<roomOf, cash, items, roomZone, myZone>>
      [] Len(args) = 2 /\ args[1] = W_new ->
           LET zone == GetZoneByName(args[1])
               id == Len(zones) + 1
               newRoom == ZoneRoom(id)
           IN  IF zone /= 0
               THEN /\ written' = <<Item("error", "A zone with that name already exists")>>
                    /\ UNCHANGED <<roomOf, cmdVars>>
               ELSE /\ zones' = Append(zones, args[2])
                    /\ roomZone' = [r \in DOMAIN roomZone \cup {newRoom} |->
                                       IF r = newRoom THEN id ELSE roomZone[r]]
                    /\ roomOf' = [roomOf EXCEPT ![Me] = newRoom]
                    /\ myZone' = id
                    /\ written' = printRoom(newRoom)
                    /\ UNCHANGED <<cash, items>>
      [] OTHER ->
           /\ written' = <<>>
           /\ UNCHANGED <<roomOf, cmdVars>>

\* lines 396-403: case "broadcast", "b"
processCommand_broadcast(args) ==
    IF Len(args) = 0
    THEN /\ written' = <<Item("error", "Nothing to say")>>
         /\ UNCHANGED <<mailbox, sent, published>>
    ELSE /\ BroadcastMessage(Me, Join(args))
         /\ written' = <<>>

\* lines 575-593: case "destroyroom"
processCommand_destroyroom(args) ==
    /\ IF Len(args) = 1
       THEN LET direction == StringToDirection(args[1])
                roomToDelete == IF direction = None THEN None
                                ELSE GetRoomByLocation(NextLocation(roomOf[Me], direction), myZone)
            IN  IF direction = None
                THEN /\ written' = <<Item("error", "Not a valid direction")>>
                     /\ UNCHANGED roomZone
                ELSE IF roomToDelete /= None
                THEN /\ roomZone' = [r \in DOMAIN roomZone \ {roomToDelete} |-> roomZone[r]]
                     /\ written' = <<Item("line", "Room destroyed")>>
                ELSE /\ written' = <<Item("error", "No room in that direction")>>
                     /\ UNCHANGED roomZone
       ELSE /\ written' = <<Item("error", "Usage: /destroyroom <direction>")>>
            /\ UNCHANGED roomZone
    /\ UNCHANGED <<roomOf, cash, items, zones, myZone>>

\* lines 663-674: case "create"
processCommand_create(args) ==
    /\ IF Len(args) /= 1
       THEN /\ written' = <<Item("error", "Usage: /create <item name>")>>
            /\ UNCHANGED items
       ELSE /\ items' = Append(items, [room |-> roomOf[Me], name |-> args[1]])
            /\ written' = <<Item("line", "Item created")>>
    /\ UNCHANGED <<roomOf, cash, zones, roomZone, myZone>>

\* the items of a sequence but the i-th
Remove(s, i) == SubSeq(s, 1, i - 1) \o SubSeq(s, i + 1, Len(s))

\* lines 676-697: case "destroyitem": the first item of the room with that name
processCommand_destroyitem(args) ==
    /\ IF Len(args) /= 1
       THEN /\ written' = <<Item("error", "Usage: /destroyitem <item name>")>>
            /\ UNCHANGED items
       ELSE LET name == ToLower(args[1])
                found == {i \in 1..Len(items) :
                             /\ items[i].room = roomOf[Me]
                             /\ ToLower(items[i].name) = name}
            IN  IF found /= {}
                THEN /\ items' = Remove(items, CHOOSE i \in found : \A j \in found : i <= j)
                     /\ written' = <<Item("line", "Item destroyed")>>
                ELSE /\ written' = <<Item("error", "Item not found")>>
                     /\ UNCHANGED items
    /\ UNCHANGED <<roomOf, cash, zones, roomZone, myZone>>

\* lines 699-723: case "cash"
processCommand_cash(args) ==
    /\ IF Len(args) = 2 /\ args[1] = W_give /\ ~Atoi(args[2]).err
       THEN /\ cash' = cash + Atoi(args[2]).val
            /\ written' = <<Item("line", "Received")>>
       ELSE /\ written' = <<Item("error", "Usage: /cash give <amount>")>>
            /\ UNCHANGED cash
    /\ UNCHANGED <<roomOf, items, zones, roomZone, myZone>>

\* lines 120-140 and 739-773 in one step: getUserInput returns the line the
\* user types next, in the mode of the call
getUserInput_LineFrom(S) ==
    /\ dpc = "send_mode"
    /\ nReads < MaxCommands
    /\ \E line \in S :
          /\ typed' = line
          /\ input' = InputFor(gMode, line)
    /\ nReads' = nReads + 1
    /\ nAccept' = nAccept + 1
    /\ dpc' = "ret"
    /\ written' = Append(written, Item("prompt", gPrompt))
    /\ UNCHANGED <<busVars, worldVars, site, gMode, gPrompt, quitMessage, rendered,
                   rpc, rMode, rPrompt, rInput, rFail, sinceLast, sleepLeft,
                   sinceAccept, span, cmdVars>>

getUserInput_Line == getUserInput_LineFrom(CmdLines)

\* what a command of the top-level loop leaves alone besides the world
CommandFrame ==
    UNCHANGED <<gone, registered, worldVars, quitMessage, rendered, readerVars, timeVars>>

Main_Command_teleport ==
    /\ AtReturn("main")
    /\ HasSlashPrefix(input)
    /\ Cmd.command \in C_teleport
    /\ processCommand_teleport(Cmd.args)
    /\ Call(RawUserInput, MainPrompt, "main")
    /\ CommandFrame
    /\ UNCHANGED <<mailbox, published, sent>>

Main_Command_map ==
    /\ AtReturn("main")
    /\ HasSlashPrefix(input)
    /\ Cmd.command = W_map
    /\ processCommand_map(Cmd.args)
    /\ Call(RawUserInput, MainPrompt, "main")
    /\ CommandFrame
    /\ UNCHANGED <<mailbox, published, sent>>

Main_Command_zone ==
    /\ AtReturn("main")
    /\ HasSlashPrefix(input)
    /\ Cmd.command = W_zone
    /\ processCommand_zone(Cmd.args)
    /\ Call(RawUserInput, MainPrompt, "main")
    /\ CommandFrame
    /\ UNCHANGED <<mailbox, published, sent>>

Main_Command_broadcast ==
    /\ AtReturn("main")
    /\ HasSlashPrefix(input)
    /\ Cmd.command \in C_broadcast
    /\ processCommand_broadcast(Cmd.args)
    /\ Call(RawUserInput, MainPrompt, "main")
    /\ CommandFrame
    /\ UNCHANGED <<roomOf, cmdVars>>

Main_Command_destroyroom ==
    /\ AtReturn("main")
    /\ HasSlashPrefix(input)
    /\ Cmd.command = W_destroyroom
    /\ processCommand_destroyroom(Cmd.args)
    /\ Call(RawUserInput, MainPrompt, "main")
    /\ CommandFrame
    /\ UNCHANGED <<mailbox, published, sent>>

Main_Command_create ==
    /\ AtReturn("main")
    /\ HasSlashPrefix(input)
    /\ Cmd.command = W_create
    /\ processCommand_create(Cmd.args)
    /\ Call(RawUserInput, MainPrompt, "main")
    /\ CommandFrame
    /\ UNCHANGED <<mailbox, published, sent>>

Main_Command_destroyitem ==
    /\ AtReturn("main")
    /\ HasSlashPrefix(input)
    /\ Cmd.command = W_destroyitem
    /\ processCommand_destroyitem(Cmd.args)
    /\ Call(RawUserInput, MainPrompt, "main")
    /\ CommandFrame
    /\ UNCHANGED <<mailbox, published, sent>>

Main_Command_cash ==
    /\ AtReturn("main")
    /\ HasSlashPrefix(input)
    /\ Cmd.command = W_cash
    /\ processCommand_cash(Cmd.args)
    /\ Call(RawUserInput, MainPrompt, "main")
    /\ CommandFrame
    /\ UNCHANGED <<mailbox, published, sent>>

CmdInit ==
    /\ cash = 0
    /\ items = <<>>
    /\ zones = <<>>
    /\ roomZone = [r \in Rooms |-> 0]
    /\ myZone = 0

(***************************************************************************)
(* Part 7: the paired exit toggle (lines 199-210) run by several sessions, *)
(* step by step.  A room is an entity with its own read/write lock, taken  *)
(* by its methods as Area's methods take theirs (GetName, SetName).        *)
(***************************************************************************)
\* bound on the number of toggles started
MaxToggles == 3

VARIABLES
    rlock,      \* rlock[r]: the lock of room r
    tpc,        \* tpc[a]: where the toggle of a's session stands
    direction,  \* direction[a]: the direction chosen in a's exit menu
    enable,     \* enable[a]: the local variable enable of a's toggle
    otherRoom,  \* otherRoom[a]: the local variable otherRoom of a's toggle
    toggles     \* number of toggles started

exitVars == <<rlock, tpc, direction, enable, otherRoom, toggles>>

\* session.room of a's session
RoomOf(a) == roomOf[a]

Holds(a, r) == rlock[r].writer = a \/ a \in rlock[r].readers

\* lines 192-199: a direction is chosen in the exit menu
Toggle_Choice(a) ==
    /\ tpc[a] = "idle"
    /\ toggles < MaxToggles
    /\ \E d \in MenuActions : direction' = [direction EXCEPT ![a] = d]
    /\ toggles' = toggles + 1
    /\ tpc' = [tpc EXCEPT ![a] = "he_lock"]
    /\ UNCHANGED <<exits, rlock, enable, otherRoom>>

\* line 200, Room.HasExit: ReadLock
Toggle_HasExit_ReadLock(a) ==
    /\ tpc[a] = "he_lock"
    /\ rlock[RoomOf(a)].writer = None
    /\ rlock' = [rlock EXCEPT ![RoomOf(a)].readers = @ \cup {a}]
    /\ tpc' = [tpc EXCEPT ![a] = "he_read"]
    /\ UNCHANGED <<exits, direction, enable, otherRoom, toggles>>

\* line 200: enable := !session.room.HasExit(direction)
Toggle_HasExit_Read(a) ==
    /\ tpc[a] = "he_read"
    /\ enable' = [enable EXCEPT ![a] = <<RoomOf(a), direction[a]>> \notin exits]
    /\ tpc' = [tpc EXCEPT ![a] = "he_unlock"]
    /\ UNCHANGED <<exits, rlock, direction, otherRoom, toggles>>

\* line 200, Room.HasExit: the deferred ReadUnlock
Toggle_HasExit_ReadUnlock(a) ==
    /\ tpc[a] = "he_unlock"
    /\ rlock' = [rlock EXCEPT ![RoomOf(a)].readers = @ \ {a}]
    /\ tpc' = [tpc EXCEPT ![a] = "se_lock"]
    /\ UNCHANGED <<exits, direction, enable, otherRoom, toggles>>

\* line 201, Room.SetExitEnabled: WriteLock
Toggle_Set_WriteLock(a) ==
    /\ tpc[a] = "se_lock"
    /\ rlock[RoomOf(a)].writer = None
    /\ rlock[RoomOf(a)].readers = {}
    /\ rlock' = [rlock EXCEPT ![RoomOf(a)].writer = a]
    /\ tpc' = [tpc EXCEPT ![a] = "se_set"]
    /\ UNCHANGED <<exits, direction, enable, otherRoom, toggles>>

\* a SetExitEnabled that sets the opposite exit of the next room as well
Toggle_Set_Assign_Both(a) ==
    /\ tpc[a] = "se_set"
    /\ exits' = ToggleExit(exits, RoomOf(a), direction[a])
    /\ tpc' = [tpc EXCEPT ![a] = "se_unlock"]
    /\ UNCHANGED <<rlock, direction, enable, otherRoom, toggles>>

\* line 201: session.room.SetExitEnabled(direction, enable)
Toggle_Set_Assign(a) ==
    /\ tpc[a] = "se_set"
    /\ exits' = SetExitEnabled(exits, RoomOf(a), direction[a], enable[a])
    /\ tpc' = [tpc EXCEPT ![a] = "se_unlock"]
    /\ UNCHANGED <<rlock, direction, enable, otherRoom, toggles>>

\* line 201, Room.SetExitEnabled: the deferred WriteUnlock
Toggle_Set_WriteUnlock(a) ==
    /\ tpc[a] = "se_unlock"
    /\ rlock' = [rlock EXCEPT ![RoomOf(a)].writer = None]
    /\ tpc' = [tpc EXCEPT ![a] = "nl_lock"]
    /\ UNCHANGED <<exits, direction, enable, otherRoom, toggles>>

\* line 204, Room.NextLocation: ReadLock
Toggle_Next_ReadLock(a) ==
    /\ tpc[a] = "nl_lock"
    /\ rlock[RoomOf(a)].writer = None
    /\ rlock' = [rlock EXCEPT ![RoomOf(a)].readers = @ \cup {a}]
    /\ tpc' = [tpc EXCEPT ![a] = "nl_unlock"]
    /\ UNCHANGED <<exits, direction, enable, otherRoom, toggles>>

\* lines 204-206: the location is read and the lock released; otherRoom is the
\* room at that location, and with no room there the toggle is over
Toggle_Next_ReadUnlock(a) ==
    /\ tpc[a] = "nl_unlock"
    /\ rlock' = [rlock EXCEPT ![RoomOf(a)].readers = @ \ {a}]
    /\ otherRoom' = [otherRoom EXCEPT ![a] = Neighbour(RoomOf(a), direction[a])]
    /\ tpc' = [tpc EXCEPT ![a] = IF otherRoom'[a] /= None THEN "ose_lock" ELSE "idle"]
    /\ UNCHANGED <<exits, direction, enable, toggles>>

\* line 207, otherRoom.SetExitEnabled: WriteLock
Toggle_Other_WriteLock(a) ==
    /\ tpc[a] = "ose_lock"
    /\ rlock[otherRoom[a]].writer = None
    /\ rlock[otherRoom[a]].readers = {}
    /\ rlock' = [rlock EXCEPT ![otherRoom[a]].writer = a]
    /\ tpc' = [tpc EXCEPT ![a] = "ose_set"]
    /\ UNCHANGED <<exits, direction, enable, otherRoom, toggles>>

\* line 207: otherRoom.SetExitEnabled(direction.Opposite(), enable)
Toggle_Other_Assign(a) ==
    /\ tpc[a] = "ose_set"
    /\ exits' = SetExitEnabled(exits, otherRoom[a], Opposite(direction[a]), enable[a])
    /\ tpc' = [tpc EXCEPT ![a] = "ose_unlock"]
    /\ UNCHANGED <<rlock, direction, enable, otherRoom, toggles>>

\* line 207, otherRoom.SetExitEnabled: the deferred WriteUnlock
Toggle_Other_WriteUnlock(a) ==
    /\ tpc[a] = "ose_unlock"
    /\ rlock' = [rlock EXCEPT ![otherRoom[a]].writer = None]
    /\ tpc' = [tpc EXCEPT ![a] = "idle"]
    /\ UNCHANGED <<exits, direction, enable, otherRoom, toggles>>

ExitsInit ==
    /\ rlock = [r \in Rooms |-> [writer |-> None, readers |-> {}]]
    /\ tpc = [a \in Actors |-> "idle"]
    /\ direction = [a \in Actors |-> None]
    /\ enable = [a \in Actors |-> FALSE]
    /\ otherRoom = [a \in Actors |-> None]
    /\ toggles = 0

(***************************************************************************)
(* Part 8: utils.BestMatch (known from its test).                          *)
(***************************************************************************)
\* bound on the length of the patterns
MaxPattern == 2

\* strings.HasPrefix(s, prefix)
HasPrefix(s, prefix) ==
    /\ Len(prefix) <= Len(s)
    /\ SubSeq(s, 1, Len(prefix)) = prefix

\* Test_BestMatch: searchList
searchList == <<<<>>, <<"F", "o", "o">>, <<"B", "a", "r">>, <<"J", "o", "e">>, <<"B", "o", "b">>, <<"A", "b", "c", "d", "e", "f">>, <<"A", "b", "c">>, <<"Q", "r", "S", "t", "U", "v">>>>

\* Test_BestMatch: the inputs of the table
P_f == <<"f">>
P_B == <<"B">>
P_alseifjlfji == <<"a", "l", "s", "e", "i", "f", "j", "l", "f", "j", "i">>
P_AB == <<"A", "B">>
P_aBc == <<"a", "B", "c">>
P_AbCd == <<"A", "b", "C", "d">>
P_q == <<"q">>
P_jo == <<"j", "o">>

\* Test_BestMatch: tests, input and output
BestMatchTests ==
    {<<P_f, 1>>, <<P_B, -2>>, <<P_alseifjlfji, -1>>, <<P_AB, -2>>, <<P_aBc, 6>>,
     <<P_AbCd, 5>>, <<P_q, 7>>, <<P_jo, 3>>}

\* the characters of the patterns
PatternChars == {"a", "A", "b", "B", "c", "f", "q"}

\* the patterns: the test's inputs, and every pattern of at most MaxPattern
\* characters
Patterns ==
    {t[1] : t \in BestMatchTests}
        \cup UNION {[1..n -> PatternChars] : n \in 0..MaxPattern}

\* the lists: the test's list and its initial parts
SearchLists == {SubSeq(searchList, 1, n) : n \in 0..Len(searchList)}

\* a matcher that takes the first entry having the pattern as a prefix
RECURSIVE BestMatchFrom_First(_, _, _, _)
BestMatchFrom_First(pattern, list, i, index) ==
    IF i > Len(list) THEN index
    ELSE IF HasPrefix(ToLower(list[i]), pattern) THEN i - 1
    ELSE BestMatchFrom_First(pattern, list, i + 1, index)

\* the scan of BestMatch from entry i on (entries are numbered from 0 in the
\* result), index being the prefix match found so far
RECURSIVE BestMatchFrom(_, _, _, _)
BestMatchFrom(pattern, list, i, index) ==
    IF i > Len(list) THEN index
    ELSE LET searchItem == ToLower(list[i])
         IN  IF searchItem = pattern THEN i - 1
             ELSE IF HasPrefix(searchItem, pattern)
                  THEN IF index /= -1 THEN -2
                       ELSE BestMatchFrom(pattern, list, i + 1, i - 1)
                  ELSE BestMatchFrom(pattern, list, i + 1, index)

\* utils.BestMatch(pattern, searchList)
BestMatch(pattern, list) == BestMatchFrom(ToLower(pattern), list, 1, -1)

VARIABLES
    bmPattern,  \* the pattern of the BestMatch call
    bmList,     \* the list of the BestMatch call
    bmResult,   \* what the call returned
    bmDone      \* whether the call has returned

matchVars == <<bmPattern, bmList, bmResult, bmDone>>

\* result := BestMatch(test.input, searchList)
BestMatch_Call ==
    /\ ~bmDone
    /\ bmResult' = BestMatch(bmPattern, bmList)
    /\ bmDone' = TRUE
    /\ UNCHANGED <<bmPattern, bmList>>

\* no BestMatch call
MatchIdle ==
    /\ bmPattern = <<>>
    /\ bmList = <<>>
    /\ bmResult = -1
    /\ bmDone = TRUE

\* ---- whisper, lines 414-441 ----

\* the lines of a session that whispers
WL_w_b_hi == <<"/", "w", " ", "b", " ", "h", "i">>
WL_tell_c_hi == <<"/", "t", "e", "l", "l", " ", "c", " ", "h", "i">>
WL_whisper_d_hi == <<"/", "w", "h", "i", "s", "p", "e", "r", " ", "d", " ", "h", "i">>
WL_w_b == <<"/", "w", " ", "b">>
WhisperLines == {L_empty, WL_w_b_hi, WL_tell_c_hi, WL_whisper_d_hi, WL_w_b}

getUserInput_Whisper == getUserInput_LineFrom(WhisperLines)

\* model.M.GetCharacterByName(name): the character of that name, None for nil
GetCharacterByName(name) ==
    CASE name = <<"a">> -> "A"
      [] name = <<"b">> -> "B"
      [] name = <<"c">> -> "C"
      [] OTHER -> None

\* Character.IsOnline: the character's session is running
IsOnline(a) == a \in registered

\* model.Tell(from, to, message): an event to the single target
Tell(from, to, text) ==
    Publish([id |-> published + 1, type |-> "tell", from |-> from,
             room |-> roomOf[from], text |-> text, to |-> to])

\* a whisper that does not ask whether the target is online
Main_Command_whisper_Check_Offline ==
    /\ AtReturn("main")
    /\ HasSlashPrefix(input)
    /\ Cmd.command \in C_whisper
    /\ Len(Cmd.args) >= 2
    /\ GetCharacterByName(Cmd.args[1]) /= None
    /\ targetChar' = GetCharacterByName(Cmd.args[1])
    /\ written' = <<>>
    /\ dpc' = "tell"
    /\ UNCHANGED <<site, gMode, gPrompt, input>>
    /\ CommandFrame
    /\ UNCHANGED <<mailbox, published, sent, roomOf>>

\* lines 417-437: the usage, the lookup of the target and the online check
Main_Command_whisper_Check ==
    /\ AtReturn("main")
    /\ HasSlashPrefix(input)
    /\ Cmd.command \in C_whisper
    /\ LET args == Cmd.args
           found == GetCharacterByName(args[1])
       IN  IF Len(args) < 2
           THEN /\ written' = <<Item("error", "Usage: /whisper <player> <message>")>>
                /\ Call(RawUserInput, MainPrompt, "main")
                /\ UNCHANGED targetChar
           ELSE IF found = None
           THEN /\ written' = <<Item("error", "Player not found")>>
                /\ Call(RawUserInput, MainPrompt, "main")
                /\ UNCHANGED targetChar
           ELSE IF ~IsOnline(found)
           THEN /\ written' = <<Item("error", "Player is not online")>>
                /\ Call(RawUserInput, MainPrompt, "main")
                /\ UNCHANGED targetChar
           ELSE /\ targetChar' = found
                /\ written' = <<>>
                /\ dpc' = "tell"
                /\ UNCHANGED <<site, gMode, gPrompt, input>>
    /\ CommandFrame
    /\ UNCHANGED <<mailbox, published, sent, roomOf>>

\* lines 439-440, 776-777: the message is told to the target, and back to the
\* main prompt
Main_Command_whisper_Tell ==
    /\ dpc = "tell"
    /\ Tell(Me, targetChar, Join(Tail(Cmd.args)))
    /\ targetChar' = None
    /\ written' = <<>>
    /\ Call(RawUserInput, MainPrompt, "main")
    /\ CommandFrame
    /\ UNCHANGED roomOf

\* what the steps of each part leave alone
restOfSession == <<entityVars, cmdVars, exitVars, matchVars, localVars>>
restOfEntity == <<sessVars, cmdVars, exitVars, matchVars, localVars>>
restOfCommands == <<entityVars, exitVars, matchVars, localVars>>
restOfExits == <<entityVars, cmdVars, busVars, roomTitle, roomDesc, dispVars,
                 readerVars, timeVars, written, matchVars, localVars>>
restOfMatch == <<entityVars, sessVars, cmdVars, exitVars, localVars>>
restOfEvent == <<entityVars, cmdVars, exitVars, matchVars>>
restOfWhisper == <<entityVars, cmdVars, exitVars, matchVars, roomCopy>>

vars == <<entityVars, sessVars, cmdVars, exitVars, matchVars, localVars>>

\* session.room as Exec finds it, and no whisper in progress
LocalInit ==
    /\ roomCopy = 0
    /\ targetChar = None

SessionInit ==
    /\ registered = Others \ Visitors
    /\ mailbox = [a \in Actors |-> <<>>]
    /\ roomOf = [a \in Actors |-> IF a = "C" THEN "R2" ELSE "R1"]
    /\ published = 0
    /\ gone = {}
    /\ sent = <<>>
    /\ rendered = <<>>
    /\ exits = {}
    /\ roomTitle = <<>>
    /\ roomDesc = <<>>
    /\ dpc = "start"
    /\ site = "main"
    /\ gMode = RawUserInput
    /\ gPrompt = MainPrompt
    /\ input = <<>>
    /\ quitMessage = None
    /\ rpc = "idle"
    /\ rMode = RawUserInput
    /\ rPrompt = MainPrompt
    /\ rInput = <<>>
    /\ typed = <<>>
    /\ rFail = None
    /\ sinceLast = 0
    /\ sleepLeft = 0
    /\ written = <<>>
    /\ nReads = 0
    /\ nAccept = 0
    /\ sinceAccept = 0
    /\ span = 0

SessionNext ==
    \/ Exec_Start /\ UNCHANGED restOfSession
    \/ getUserInput_SendMode /\ UNCHANGED restOfSession
    \/ getUserInput_SendPrompt /\ UNCHANGED restOfSession
    \/ getUserInput_Input /\ UNCHANGED restOfSession
    \/ getUserInput_Event /\ UNCHANGED restOfSession
    \/ getUserInput_Panic /\ UNCHANGED restOfSession
    \/ Main_Return /\ UNCHANGED restOfSession
    \/ Main_Command_edit /\ UNCHANGED restOfSession
    \/ Main_Command_say /\ UNCHANGED restOfSession
    \/ Main_Command_default /\ UNCHANGED restOfSession
    \/ Main_Action /\ UNCHANGED restOfSession
    \/ Edit_Dispatch /\ UNCHANGED restOfSession
    \/ Title_Dispatch /\ UNCHANGED restOfSession
    \/ Desc_Dispatch /\ UNCHANGED restOfSession
    \/ Menu_Dispatch /\ UNCHANGED restOfSession
    \/ Reader_Init /\ UNCHANGED restOfSession
    \/ Reader_Prompt /\ UNCHANGED restOfSession
    \/ Reader_Read /\ UNCHANGED restOfSession
    \/ Reader_ReadFail /\ UNCHANGED restOfSession
    \/ Reader_Throttle /\ UNCHANGED restOfSession
    \/ Reader_Wake /\ UNCHANGED restOfSession
    \/ Reader_Stamp /\ UNCHANGED restOfSession
    \/ (\E a \in Visitors : EnvRegister(a)) /\ UNCHANGED restOfSession
    \/ (\E a \in Visitors : EnvUnregister(a)) /\ UNCHANGED restOfSession
    \/ (\E a \in Visitors : EnvSay(a)) /\ UNCHANGED restOfSession
    \/ Tick /\ UNCHANGED restOfSession

EntityInit ==
    /\ area = None
    /\ areaState = "absent"
    /\ lock = [writer |-> None, readers |-> {}]
    /\ store = None
    /\ apc = [p \in Procs |-> "idle"]
    /\ arg = [p \in Procs |-> None]
    /\ ret = [p \in Procs |-> None]
    /\ changed = [p \in Procs |-> FALSE]
    /\ commits = [p \in Procs |-> 0]
    /\ commitLog = <<>>
    /\ memLog = <<>>
    /\ calls = 0

EntityNext ==
    \/ NewArea_Build /\ UNCHANGED restOfEntity
    \/ NewArea_Commit /\ UNCHANGED restOfEntity
    \/ (\E p \in Procs : SetName_Call(p)) /\ UNCHANGED restOfEntity
    \/ (\E p \in Procs : SetName_WriteLock(p)) /\ UNCHANGED restOfEntity
    \/ (\E p \in Procs : SetName_Compare(p)) /\ UNCHANGED restOfEntity
    \/ (\E p \in Procs : SetName_Assign(p)) /\ UNCHANGED restOfEntity
    \/ (\E p \in Procs : SetName_objectModified(p)) /\ UNCHANGED restOfEntity
    \/ (\E p \in Procs : SetName_WriteUnlock(p)) /\ UNCHANGED restOfEntity
    \/ (\E p \in Procs : Get_Call(p)) /\ UNCHANGED restOfEntity
    \/ (\E p \in Procs : GetName_ReadLock(p)) /\ UNCHANGED restOfEntity
    \/ (\E p \in Procs : GetName_Read(p)) /\ UNCHANGED restOfEntity
    \/ (\E p \in Procs : GetName_ReadUnlock(p)) /\ UNCHANGED restOfEntity
    \/ (\E p \in Procs : GetZoneId_ReadLock(p)) /\ UNCHANGED restOfEntity
    \/ (\E p \in Procs : GetZoneId_Read(p)) /\ UNCHANGED restOfEntity
    \/ (\E p \in Procs : GetZoneId_ReadUnlock(p)) /\ UNCHANGED restOfEntity

Init == EntityInit /\ SessionInit /\ CmdInit /\ ExitsInit /\ MatchIdle /\ LocalInit

\* the sessions' calls on one Area
SpecEntity == Init /\ [][EntityNext]_vars

\* one session, the bus and the other sessions
Spec == Init /\ [][SessionNext]_vars

\* the session on its own, the other sessions idle
ExecNext ==
    \/ Exec_Start /\ UNCHANGED restOfSession
    \/ getUserInput_SendMode /\ UNCHANGED restOfSession
    \/ getUserInput_SendPrompt /\ UNCHANGED restOfSession
    \/ getUserInput_Input /\ UNCHANGED restOfSession
    \/ getUserInput_Event /\ UNCHANGED restOfSession
    \/ getUserInput_Panic /\ UNCHANGED restOfSession
    \/ Main_Return /\ UNCHANGED restOfSession
    \/ Main_Command_edit /\ UNCHANGED restOfSession
    \/ Main_Command_say /\ UNCHANGED restOfSession
    \/ Main_Command_default /\ UNCHANGED restOfSession
    \/ Main_Action /\ UNCHANGED restOfSession
    \/ Edit_Dispatch /\ UNCHANGED restOfSession
    \/ Title_Dispatch /\ UNCHANGED restOfSession
    \/ Desc_Dispatch /\ UNCHANGED restOfSession
    \/ Menu_Dispatch /\ UNCHANGED restOfSession
    \/ Reader_Init /\ UNCHANGED restOfSession
    \/ Reader_Prompt /\ UNCHANGED restOfSession
    \/ Reader_Read /\ UNCHANGED restOfSession
    \/ Reader_ReadFail /\ UNCHANGED restOfSession
    \/ Reader_Throttle /\ UNCHANGED restOfSession
    \/ Reader_Wake /\ UNCHANGED restOfSession
    \/ Reader_Stamp /\ UNCHANGED restOfSession
    \/ Tick /\ UNCHANGED restOfSession

\* the session on its own with a select (lines 125-137) that does not pass over
\* the reader's failure forever: Go's select chooses among its ready cases at
\* random
SpecFair ==
    /\ Init
    /\ [][ExecNext]_vars
    /\ WF_vars(getUserInput_Panic /\ UNCHANGED restOfSession)

\* the steps of the dispatcher goroutine, lines 106-218 and 775-787
DispatcherStep ==
    \/ Exec_Start
    \/ getUserInput_SendMode
    \/ getUserInput_SendPrompt
    \/ getUserInput_Input
    \/ getUserInput_Event
    \/ getUserInput_Panic
    \/ Main_Return
    \/ Main_Command_edit
    \/ Main_Command_say
    \/ Main_Command_default
    \/ Main_Action
    \/ Edit_Dispatch
    \/ Title_Dispatch
    \/ Desc_Dispatch
    \/ Menu_Dispatch

\* the steps the reader goroutine takes on its own, lines 739-773: all but the
\* arrival of the user's line and the failure of the connection
ReaderStep ==
    \/ Reader_Init
    \/ Reader_Prompt
    \/ Reader_Throttle
    \/ Reader_Wake
    \/ Reader_Stamp

\* the session on its own, its two goroutines scheduled fairly and time passing;
\* the user may stop typing
SpecLive ==
    /\ Init
    /\ [][ExecNext]_vars
    /\ WF_vars(DispatcherStep /\ UNCHANGED restOfSession)
    /\ WF_vars(ReaderStep /\ UNCHANGED restOfSession)
    /\ WF_vars(Tick /\ UNCHANGED restOfSession)

\* the connection answers: the read of line 755-760 returns a line or fails
ConnectionStep ==
    \/ Reader_Read
    \/ Reader_ReadFail

\* the session on its own, its two goroutines scheduled fairly, time passing
\* and every read of the connection returning or failing
SpecRead ==
    /\ Init
    /\ [][ExecNext]_vars
    /\ WF_vars(DispatcherStep /\ UNCHANGED restOfSession)
    /\ WF_vars(ReaderStep /\ UNCHANGED restOfSession)
    /\ WF_vars(Tick /\ UNCHANGED restOfSession)
    /\ WF_vars(ConnectionStep /\ UNCHANGED restOfSession)

\* the texts of the events of EnvEvent; the empty one is rendered as ""
EventTexts == {<<>>, <<"h", "i">>}

\* the types of the events of EnvEvent
EventTypes == {"say", RoomUpdateEventType}

\* an event of any type, of any room and with any text reaches the mailbox of
\* the session; a room update carries the room as updated
EnvEvent(a) ==
    /\ Me \in registered
    /\ published < MaxEvents
    /\ \E type \in EventTypes : \E r \in Rooms : \E text \in EventTexts :
          LET id == published + 1
              e == [id |-> id, type |-> type, from |-> a, room |-> r, text |-> text,
                    Room |-> [id |-> r, rev |-> id]]
          IN  /\ mailbox' = [mailbox EXCEPT ![Me] = Append(@, e)]
              /\ sent' = Append(sent, id)
    /\ published' = published + 1
    /\ UNCHANGED <<gone, registered, roomOf, worldVars, dispVars, readerVars,
                   timeVars, written>>

\* the session at its first prompt, and the events that reach it
EventsNext ==
    \/ Exec_Start /\ UNCHANGED restOfSession
    \/ getUserInput_SendMode /\ UNCHANGED restOfSession
    \/ getUserInput_SendPrompt /\ UNCHANGED restOfSession
    \/ getUserInput_Event /\ UNCHANGED restOfEvent
    \/ Reader_Init /\ UNCHANGED restOfSession
    \/ Reader_Prompt /\ UNCHANGED restOfSession
    \/ (\E a \in Others : EnvEvent(a)) /\ UNCHANGED restOfSession

\* one session waiting for a line while events of every kind arrive
SpecEvents == Init /\ [][EventsNext]_vars

\* a session that whispers while other sessions start and end
WhisperNext ==
    \/ Exec_Start /\ UNCHANGED restOfSession
    \/ getUserInput_Whisper /\ UNCHANGED restOfCommands
    \/ Main_Return /\ UNCHANGED restOfSession
    \/ Main_Command_whisper_Check /\ UNCHANGED restOfWhisper
    \/ Main_Command_whisper_Tell /\ UNCHANGED restOfWhisper
    \/ (\E a \in Others : EnvRegister(a)) /\ UNCHANGED restOfSession
    \/ (\E a \in Others : EnvUnregister(a)) /\ UNCHANGED restOfSession

\* one session whispering at the top-level prompt
SpecWhisper == Init /\ [][WhisperNext]_vars

\* the top-level loop with its commands
CommandsNext ==
    \/ Exec_Start /\ UNCHANGED restOfSession
    \/ getUserInput_Line /\ UNCHANGED restOfCommands
    \/ Main_Return /\ UNCHANGED restOfSession
    \/ Main_Action /\ UNCHANGED restOfSession
    \/ Main_Command_say /\ UNCHANGED restOfSession
    \/ Main_Command_broadcast /\ UNCHANGED restOfCommands
    \/ Main_Command_teleport /\ UNCHANGED restOfCommands
    \/ Main_Command_map /\ UNCHANGED restOfCommands
    \/ Main_Command_zone /\ UNCHANGED restOfCommands
    \/ Main_Command_destroyroom /\ UNCHANGED restOfCommands
    \/ Main_Command_create /\ UNCHANGED restOfCommands
    \/ Main_Command_destroyitem /\ UNCHANGED restOfCommands
    \/ Main_Command_cash /\ UNCHANGED restOfCommands
    \/ Main_Command_default /\ UNCHANGED restOfSession

\* one session typing commands at the top-level prompt
SpecCommands == Init /\ [][CommandsNext]_vars

\* a getUserInput call has just been made: the first call of the main loop
\* (raw mode), or the call of the room editor after "/edit" (clean mode)
InputInit ==
    /\ EntityInit
    /\ CmdInit
    /\ ExitsInit
    /\ MatchIdle
    /\ LocalInit
    /\ registered = (Others \ Visitors) \cup {Me}
    /\ mailbox = [a \in Actors |-> <<>>]
    /\ roomOf = [a \in Actors |-> IF a = "C" THEN "R2" ELSE "R1"]
    /\ published = 0
    /\ gone = {}
    /\ sent = <<>>
    /\ rendered = <<>>
    /\ exits = {}
    /\ roomTitle = <<>>
    /\ roomDesc = <<>>
    /\ dpc = "send_mode"
    /\ input = <<>>
    /\ quitMessage = None
    /\ rpc = "wait_mode"
    /\ rMode = RawUserInput
    /\ rPrompt = MainPrompt
    /\ rFail = None
    /\ sinceLast = 0
    /\ sleepLeft = 0
    /\ sinceAccept = 0
    /\ span = 0
    /\ \/ /\ site = "main"
          /\ gMode = RawUserInput
          /\ gPrompt = MainPrompt
          /\ written = <<Item("line", "Welcome"), Item("room", "R1")>>
          /\ rInput = <<>>
          /\ typed = <<>>
          /\ nReads = 0
          /\ nAccept = 0
       \/ /\ site = "edit"
          /\ gMode = CleanUserInput
          /\ gPrompt = EditPrompt
          /\ written = <<Item("roomeditor", "R1")>>
          /\ rInput = L_edit
          /\ typed = L_edit
          /\ nReads = 1
          /\ nAccept = 1

\* one getUserInput call, from the request to the return of the line
InputNext ==
    \/ getUserInput_SendMode /\ UNCHANGED restOfSession
    \/ getUserInput_SendPrompt /\ UNCHANGED restOfSession
    \/ Reader_Prompt /\ UNCHANGED restOfSession
    \/ Reader_ReadTest /\ UNCHANGED restOfSession
    \/ Reader_Throttle /\ UNCHANGED restOfSession
    \/ Reader_Wake /\ UNCHANGED restOfSession
    \/ getUserInput_Input /\ UNCHANGED restOfSession
    \/ Tick /\ UNCHANGED restOfSession

\* one line, any of TestLines, read in either mode
SpecInput == InputInit /\ [][InputNext]_vars

\* the sessions toggling exits
ExitsNext ==
    \/ (\E a \in Actors : Toggle_Choice(a)) /\ UNCHANGED restOfExits
    \/ (\E a \in Actors : Toggle_HasExit_ReadLock(a)) /\ UNCHANGED restOfExits
    \/ (\E a \in Actors : Toggle_HasExit_Read(a)) /\ UNCHANGED restOfExits
    \/ (\E a \in Actors : Toggle_HasExit_ReadUnlock(a)) /\ UNCHANGED restOfExits
    \/ (\E a \in Actors : Toggle_Set_WriteLock(a)) /\ UNCHANGED restOfExits
    \/ (\E a \in Actors : Toggle_Set_Assign(a)) /\ UNCHANGED restOfExits
    \/ (\E a \in Actors : Toggle_Set_WriteUnlock(a)) /\ UNCHANGED restOfExits
    \/ (\E a \in Actors : Toggle_Next_ReadLock(a)) /\ UNCHANGED restOfExits
    \/ (\E a \in Actors : Toggle_Next_ReadUnlock(a)) /\ UNCHANGED restOfExits
    \/ (\E a \in Actors : Toggle_Other_WriteLock(a)) /\ UNCHANGED restOfExits
    \/ (\E a \in Actors : Toggle_Other_Assign(a)) /\ UNCHANGED restOfExits
    \/ (\E a \in Actors : Toggle_Other_WriteUnlock(a)) /\ UNCHANGED restOfExits

\* three sessions, two of them in the same room, in the exit menu
SpecExits == Init /\ [][ExitsNext]_vars

\* a BestMatch call is about to be made
MatchInit ==
    /\ EntityInit
    /\ SessionInit
    /\ CmdInit
    /\ ExitsInit
    /\ LocalInit
    /\ bmPattern \in Patterns
    /\ bmList \in SearchLists
    /\ bmResult = -1
    /\ bmDone = FALSE

\* the calls of BestMatch
MatchNext ==
    \/ BestMatch_Call /\ UNCHANGED restOfMatch

\* one BestMatch call, on any of Patterns and SearchLists
SpecMatch == MatchInit /\ [][MatchNext]_vars

(***************************************************************************)
(* Claims about the entity.                                                *)
(***************************************************************************)
InWriterCS(p) == apc[p] \in WriterCS
InReaderCS(p) == apc[p] \in ReaderCS

\* C1: a writer holds the entity's lock exclusively: while a mutator is between
\* acquiring and releasing the write lock no accessor is inside its read section
\* and no other mutator is inside its write section; and the value an accessor
\* has copied is the value the last completed (or the initial) mutation left.
C1_WriterExclusive ==
    /\ \A p \in Procs : InWriterCS(p) =>
          \A q \in Procs \ {p} : ~InWriterCS(q) /\ ~InReaderCS(q)
    /\ \A p \in Procs : apc[p] = "gn_unlock" =>
          /\ ret[p] = Last(commitLog)
          /\ ret[p] = area.Name

\* a mutator is in the middle of a real mutation while another session, which
\* has read the area before, waits for the lock
C1_Witness ==
    \E p \in Procs : \E q \in Procs \ {p} :
        /\ apc[p] = "sn_commit"
        /\ apc[q] = "gn_lock"
        /\ ret[q] \in Names
        /\ Len(memLog) >= 3

\* the steps a SetName call takes once it has found name == self.Name
C2_NoopStep(p) ==
    /\ apc[p] \in {"sn_cmp", "sn_unlock"}
    /\ apc'[p] /= apc[p]
    /\ (apc[p] = "sn_cmp" => arg[p] = area.Name)
    /\ (apc[p] = "sn_unlock" => ~changed[p])

\* C2: a SetName call whose argument equals the current Name commits nothing
\* and leaves the area, the store and both histories as they were.
C2_NoopNoCommit ==
    /\ [](\A p \in Procs : (apc[p] = "sn_unlock" /\ ~changed[p]) =>
              /\ commits[p] = 0
              /\ area.Name = arg[p])
    /\ [][\A p \in Procs : C2_NoopStep(p) =>
              /\ area' = area
              /\ store' = store
              /\ commitLog' = commitLog
              /\ memLog' = memLog
              /\ apc'[p] \in {"sn_unlock", "idle"}]_vars

\* a no-op SetName is about to return, after the area was really renamed before
C2_Witness ==
    \E p \in Procs :
        /\ apc[p] = "sn_unlock"
        /\ ~changed[p]
        /\ Len(commitLog) >= 2

\* C3: a SetName call whose argument differs from the current Name commits
\* exactly once, and from the in-memory update to the end of the commit the
\* caller holds the write lock and no other session is inside a read or write
\* section of the area.
C3_OneCommitUnderLock ==
    \A p \in Procs :
        /\ apc[p] = "sn_commit" => commits[p] = 0
        /\ (apc[p] \in {"sn_unlock", "idle"} /\ changed[p]) => commits[p] = 1
        /\ (apc[p] = "sn_commit" \/ (apc[p] = "sn_unlock" /\ changed[p])) =>
              /\ lock.writer = p
              /\ lock.readers = {}
              /\ \A q \in Procs \ {p} : ~InWriterCS(q) /\ ~InReaderCS(q)

\* a real mutation has committed and still holds the lock another session wants
C3_Witness ==
    \E p \in Procs : \E q \in Procs \ {p} :
        /\ apc[p] = "sn_unlock"
        /\ changed[p]
        /\ commits[p] = 1
        /\ apc[q] \in {"sn_lock", "gn_lock", "gz_lock"}

IsPrefix(s, t) ==
    /\ Len(s) <= Len(t)
    /\ \A i \in 1..Len(s) : s[i] = t[i]

\* C4: the values committed to the store are, in order, the values the
\* in-memory Name took (the commit of the newest one may be pending), and when
\* no creation or mutation is in progress the two histories and the two
\* records are equal.
C4_CommitOrder ==
    /\ IsPrefix(commitLog, memLog)
    /\ Len(memLog) <= Len(commitLog) + 1
    /\ (areaState = "live" /\ \A p \in Procs : ~InWriterCS(p)) =>
          /\ commitLog = memLog
          /\ store = area
          /\ Last(commitLog) = area.Name

\* two different sessions have each renamed the area, and all is quiet
C4_Witness ==
    /\ \A p \in Procs : apc[p] = "idle"
    /\ \E p \in Procs : \E q \in Procs \ {p} :
          /\ changed[p] /\ commits[p] = 1
          /\ changed[q] /\ commits[q] = 1
    /\ Len(commitLog) >= 3

(***************************************************************************)
(* Claims about the session and the event bus.                             *)
(***************************************************************************)
Ids(q) == [i \in 1..Len(q) |-> q[i].id]
NoDuplicates(s) == \A i \in 1..Len(s) : \A j \in 1..Len(s) : i /= j => s[i] /= s[j]
Increasing(s) == \A i \in 1..Len(s) : \A j \in 1..Len(s) : i < j => s[i] < s[j]
Ended == dpc \in {"returned", "panicked"}

\* C5: the events of one actor are processed in the order they were published
\* to its mailbox, at whatever prompt the dispatcher waits: the events rendered
\* so far are, in order and without repetition, the first of the events
\* enqueued for the actor, and the events still pending are the rest of them.
C5_MailboxFIFO ==
    /\ Increasing(sent)
    /\ IsPrefix(rendered, sent)
    /\ NoDuplicates(rendered)
    /\ Me \in registered => rendered \o Ids(mailbox[Me]) = sent

\* two events were rendered, the second one while the session waits in the exit
\* menu and the first one before that wait began
C5_Witness ==
    /\ site = "menu"
    /\ dpc = "select"
    /\ rendered = <<1, 2>>
    /\ Len(written) = 5
    /\ written[4].kind = "line"
    /\ written[4].text.id = 2

\* the mailbox of a has gained exactly one event, at its end: text said by from
C6_Delivered(a, from, text) ==
    /\ Len(mailbox'[a]) = Len(mailbox[a]) + 1
    /\ SubSeq(mailbox'[a], 1, Len(mailbox[a])) = mailbox[a]
    /\ Last(mailbox'[a]).from = from
    /\ Last(mailbox'[a]).text = text

\* from says text in its room: who gets it and who does not
C6_Audience(from, text) ==
    \A a \in Actors :
        IF a \in registered /\ roomOf[a] = roomOf[from]
        THEN C6_Delivered(a, from, text)
        ELSE mailbox'[a] = mailbox[a]

\* the dispatcher carries out "/say <words>"
C6_SayStep ==
    /\ AtReturn("main")
    /\ HasSlashPrefix(input)
    /\ Cmd.command \in C_say
    /\ Cmd.args /= <<>>
    /\ dpc' /= dpc

\* another session says something
C6_EnvSayStep ==
    /\ published' = published + 1
    /\ dpc' = dpc

\* C6: a say in room R is enqueued exactly once in the mailbox of every
\* registered actor located in R and in no other mailbox: not for an actor in
\* another room, not for an actor that is not registered.
C6_RoomAudience ==
    /\ [][C6_SayStep => C6_Audience(Me, Join(Cmd.args))]_vars
    /\ [][C6_EnvSayStep =>
             \E s \in Others \cap registered : C6_Audience(s, <<"h", "i">>)]_vars

\* A has said "hi" in R1: A and B, in R1, have one event each, and C, registered
\* but in R2, has none
C6_Witness ==
    /\ {"B", "C"} \subseteq registered
    /\ roomOf["B"] = roomOf[Me]
    /\ roomOf["C"] /= roomOf[Me]
    /\ Len(mailbox["B"]) = 1
    /\ mailbox["B"][1].from = Me
    /\ mailbox["B"][1].type = "say"
    /\ sent = <<1>>
    /\ mailbox["C"] = <<>>
    /\ published = 1

\* C7: once the session has ended its mailbox is unregistered, and a publish
\* finds nothing to enqueue for an actor that is not registered: the actor's
\* mailbox stays empty, the publish changes no registration, and the publisher
\* can always take its step.
C7_UnregisteredNoop ==
    /\ [](Ended => Me \notin registered)
    /\ [](\A a \in Actors : a \notin registered => mailbox[a] = <<>>)
    /\ [][published' = published + 1 =>
             /\ registered' = registered
             /\ \A a \in Actors \ registered : mailbox'[a] = mailbox[a]]_vars
    /\ []((Ended /\ "B" \in registered /\ published < MaxEvents) =>
             ENABLED (EnvSay("B") /\ UNCHANGED restOfSession))

\* the session received event 1 and ended; B then said something in the
\* session's room, which B received and the ended session did not
C7_Witness ==
    /\ Ended
    /\ sent = <<1>>
    /\ "B" \in registered
    /\ \E i \in 1..Len(mailbox["B"]) :
          /\ mailbox["B"][i].id = 2
          /\ mailbox["B"][i].room = roomOf[Me]
    /\ mailbox[Me] = <<>>

\* C8: an input is handed to the dispatcher no sooner than Delay (200 ms) after
\* the previous hand-off, so that n hand-offs span at least (n - 1) * Delay.
C8_Throttle ==
    /\ [][(nAccept' = nAccept + 1 /\ nAccept >= 1) => sinceAccept >= Delay]_vars
    /\ [](nAccept >= 1 => span >= (nAccept - 1) * Delay)

\* two inputs were handed over, and a third, typed at once, sleeps the full delay
C8_Witness ==
    /\ nAccept = 2
    /\ nReads = 3
    /\ rpc = "sleep"
    /\ sleepLeft = Delay
    /\ span >= Delay

\* the dispatcher handles an event while it waits for the choice of the exit menu
C9_MenuEventStep ==
    /\ site = "menu"
    /\ dpc = "select"
    /\ rendered' /= rendered

\* C9: an event that arrives while the session waits for a menu choice is
\* printed, the menu prompt is printed again and the wait goes on, the reader
\* and its pending line untouched; the choice the menu gets is the reader's
\* input for the one line the user typed at that prompt.
C9_MenuWait ==
    /\ [][C9_MenuEventStep =>
             /\ dpc' = "select"
             /\ site' = site
             /\ gPrompt' = gPrompt
             /\ input' = input
             /\ <<rpc, rMode, rInput, typed, nReads, nAccept>>' =
                   <<rpc, rMode, rInput, typed, nReads, nAccept>>
             /\ Len(written') = Len(written) + 3
             /\ SubSeq(written', 1, Len(written)) = written
             /\ written'[Len(written) + 1].kind = "clear"
             /\ written'[Len(written) + 2].kind = "line"
             /\ written'[Len(written) + 2].text = Event_ToString(Head(mailbox[Me]), Me)
             /\ written'[Len(written) + 3].kind = "prompt"
             /\ written'[Len(written) + 3].text = MenuPrompt]_vars
    /\ [](AtReturn("menu") =>
             /\ input = GetUserInput(typed)
             /\ input = rInput
             /\ nAccept = nReads)

\* two events were printed during the wait for the menu choice, then the user's
\* line " N " came back as the choice "n"
C9_Witness ==
    /\ AtReturn("menu")
    /\ typed = L_N
    /\ input = <<"n">>
    /\ Len(written) = 8
    /\ written[4].kind = "line"
    /\ written[7].kind = "line"

C11_Quit == input = <<>> \/ input = L_logout

\* C11: at the top-level loop the session ends, cleanly, exactly when the line
\* returned is empty or "logout"; any other line is dispatched (a line with "/"
\* as a command, any other as an action) and the session waits for a line
\* again; a line returned to a nested prompt never ends the session.
C11_TopLevelEnds ==
    /\ [][(AtReturn("main") /\ dpc' /= dpc) =>
             IF C11_Quit
             THEN /\ dpc' = "returned"
                  /\ Me \notin registered'
                  /\ quitMessage' = None
             ELSE /\ dpc' = "send_mode"
                  /\ IF HasSlashPrefix(input)
                     THEN CASE Cmd.command = C_edit -> site' = "edit"
                            [] Cmd.command \in C_say /\ Cmd.args = <<>> ->
                                 /\ site' = "main"
                                 /\ written' = <<Item("error", "Nothing to say")>>
                            [] Cmd.command \in C_say /\ Cmd.args /= <<>> ->
                                 /\ site' = "main"
                                 /\ published' = published + 1
                            [] OTHER ->
                                 /\ site' = "main"
                                 /\ written' = <<Item("error", "Unrecognized command")>>
                     ELSE /\ site' = "main"
                          /\ written' = <<>>
                          /\ published' = published]_vars
    /\ [][(dpc' = "returned" /\ dpc /= "returned") => (AtReturn("main") /\ C11_Quit)]_vars
    /\ [][(dpc = "ret" /\ site /= "main" /\ dpc' /= dpc) => dpc' = "send_mode"]_vars

\* the session has ended on "logout", typed at the top-level prompt after the
\* user had left the room editor with an empty line
C11_Witness ==
    /\ dpc = "returned"
    /\ input = L_logout
    /\ nAccept = 3
    /\ Me \notin registered
    /\ quitMessage = None

\* the dispatcher waits in getUserInput while the reader is blocked on the
\* network read or on the throttle sleep
C12_Waiting == dpc = "select" /\ rpc \in {"reading", "sleep"}

C12_Pending(id) == \E i \in 1..Len(mailbox[Me]) : mailbox[Me][i].id = id

C12_Processed(id) == \E i \in 1..Len(rendered) : rendered[i] = id

\* C12 as stated: whenever the dispatcher waits in getUserInput and the reader
\* is blocked, every event in the session's mailbox is eventually processed.
C12_NeverEventBlind ==
    \A id \in 1..(MaxEvents + MaxInputs) :
        (C12_Waiting /\ C12_Pending(id)) ~> C12_Processed(id)

\* C12, amended: whenever the dispatcher waits in getUserInput and the reader
\* is blocked, the dispatcher can take the oldest pending event at once, with no
\* line from the user, and every event in the session's mailbox is eventually
\* processed unless the session ends first: an event leaves the mailbox only by
\* being processed or with the end of the session, and a mailbox that is not
\* empty during such a wait is eventually empty.
C12_NeverEventBlindWhileRunning ==
    /\ [](C12_Waiting /\ mailbox[Me] /= <<>> =>
            ENABLED <<getUserInput_Event /\ UNCHANGED restOfSession>>_vars)
    /\ [][(C12_Waiting /\ rendered' /= rendered) =>
            (rpc' = rpc /\ nReads' = nReads /\ nAccept' = nAccept /\ dpc' = "select")]_vars
    /\ [][Len(mailbox'[Me]) < Len(mailbox[Me]) =>
            \/ /\ mailbox'[Me] = Tail(mailbox[Me])
               /\ rendered' = Append(rendered, Head(mailbox[Me]).id)
            \/ Ended']_vars
    /\ (C12_Waiting /\ mailbox[Me] /= <<>>) ~> (mailbox[Me] = <<>> \/ Ended)

\* an event was printed during a wait in which the user typed nothing: the
\* reader is still blocked on the read that wait asked for
C12_Witness ==
    /\ C12_Waiting
    /\ rpc = "reading"
    /\ nReads = nAccept
    /\ rendered /= <<>>
    /\ mailbox[Me] = <<>>
    /\ Len(written) >= 3
    /\ written[Len(written) - 1].kind = "line"

C13_NotNumeric(tok) ==
    LET body == IF tok /= <<>> /\ Head(tok) \in {"-", "+"} THEN Tail(tok) ELSE tok
    IN  body = <<>> \/ \E i \in 1..Len(body) : body[i] \notin Digit

\* the line returned to the top-level loop is a command that is not valid: an
\* unknown name, no text to say or broadcast, a wrong number of arguments or an
\* argument that is not the number (or word) the command wants
C13_Invalid ==
    /\ AtReturn("main")
    /\ HasSlashPrefix(input)
    /\ LET c == Cmd.command
           a == Cmd.args
           n == Len(Cmd.args)
       IN  \/ c \notin Commands
           \/ c \in C_say \cup C_broadcast /\ n = 0
           \/ c \in C_teleport /\ n \notin {1, 3}
           \/ c \in C_teleport /\ n = 3 /\ \E i \in 1..3 : C13_NotNumeric(a[i])
           \/ c = W_map /\ n > 1
           \/ c = W_map /\ n = 1 /\ a[1] /= W_all /\ C13_NotNumeric(a[1])
           \/ c = W_map /\ n = 1 /\ a[1] = <<"0">>
           \/ c = W_cash /\ n /= 2
           \/ c = W_cash /\ n = 2 /\ (a[1] /= W_give \/ C13_NotNumeric(a[2]))
           \/ c = W_create /\ n /= 1
           \/ c = W_destroyitem /\ n /= 1
           \/ c = W_destroyroom /\ n /= 1
           \/ c = W_destroyroom /\ n = 1 /\ a[1] \notin {<<"n">>, <<"s">>}

\* C13: a command that is not valid is never fatal: the step that handles it
\* neither ends the session nor re-raises anything; it prints one error line,
\* changes no entity (rooms, zones, items, cash, exits, the Area), publishes
\* nothing and calls getUserInput again from the top-level loop.
C13_InvalidNotFatal ==
    [][C13_Invalid =>
           /\ dpc' = "send_mode"
           /\ site' = "main"
           /\ gMode' = RawUserInput
           /\ quitMessage' = None
           /\ Len(written') = 1
           /\ written'[1].kind = "error"
           /\ UNCHANGED <<roomOf, cmdVars, worldVars, entityVars>>
           /\ UNCHANGED <<published, mailbox, sent, registered>>]_vars

\* the player, who has cash from an earlier command, typed a teleport with an
\* argument that is no number; the usage was printed and the session asks for
\* the next line
C13_Witness ==
    /\ dpc = "send_mode"
    /\ site = "main"
    /\ typed = CL_tel_nan
    /\ written = <<Item("error", "Usage: /teleport [<zone>|<X> <Y> <Z>]")>>
    /\ cash = 5
    /\ roomOf[Me] = "R1"
    /\ nAccept = 2

\* the room whose lock a's toggle is asking for, None when it asks for none
Requested(a) ==
    CASE tpc[a] \in {"he_lock", "se_lock", "nl_lock"} -> RoomOf(a)
      [] tpc[a] = "ose_lock" -> otherRoom[a]
      [] OTHER -> None

\* C14: no session holds the locks of two rooms at once; a session that asks
\* for a lock holds none (not that room's, and no other's); each of the two
\* mutations of the paired toggle is made under the lock of the room it changes
\* and of no other, and no room's exits change but under that room's write
\* lock; and whoever holds a lock that is asked for is not itself waiting for a
\* lock, so there is no cycle of waiting sessions.
C14_LockDiscipline ==
    /\ [](\A a \in Actors :
            /\ Cardinality({r \in Rooms : Holds(a, r)}) <= 1
            /\ Requested(a) /= None =>
                  /\ \A r \in Rooms : ~Holds(a, r)
                  /\ \A b \in Actors : Holds(b, Requested(a)) => Requested(b) = None
            /\ tpc[a] = "se_set" =>
                  /\ rlock[RoomOf(a)].writer = a
                  /\ \A r \in Rooms \ {RoomOf(a)} : ~Holds(a, r)
            /\ tpc[a] = "ose_set" =>
                  /\ otherRoom[a] /= RoomOf(a)
                  /\ rlock[otherRoom[a]].writer = a
                  /\ ~Holds(a, RoomOf(a)))
    /\ [][\A r \in Rooms : \A d \in MenuActions :
            ((<<r, d>> \in exits) /= (<<r, d>> \in exits')) =>
                /\ rlock[r].writer /= None
                /\ tpc'[rlock[r].writer] /= tpc[rlock[r].writer]]_vars

\* a session that has changed its own room waits for the lock of the next room,
\* which the session of that room holds for its own change
C14_Witness ==
    \E a \in Actors : \E b \in Actors \ {a} :
        /\ tpc[a] = "ose_lock"
        /\ tpc[b] = "se_set"
        /\ RoomOf(b) = otherRoom[a]
        /\ rlock[otherRoom[a]].writer = b

\* the exit of r in direction d and the opposite exit of the room next to r in
\* that direction are both enabled or both disabled
Symmetric ==
    \A r \in Rooms : \A d \in MenuActions :
        Neighbour(r, d) /= None =>
            ((<<r, d>> \in exits) <=> (<<Neighbour(r, d), Opposite(d)>> \in exits))

\* a's toggle has made its first mutation and not yet its second
BetweenMutations(a) ==
    tpc[a] \in {"se_unlock", "nl_lock", "nl_unlock", "ose_lock", "ose_set"}

\* C19: starting with all exits symmetric, in every state where no toggle is
\* between its two mutations the exits are symmetric.
C19_SymmetricWhenQuiet ==
    (\A a \in Actors : ~BetweenMutations(a)) => Symmetric

\* C15: NewArea commits the area before it returns it: the step that makes the
\* area reachable leaves a store record equal to the area as it was built, the
\* first value committed is the Name it was created with, and whenever a
\* session is inside one of the area's methods the store holds a record of it,
\* with the ZoneId it was created with.
C15_CommittedBeforeReturn ==
    /\ [][(areaState /= "live" /\ areaState' = "live") =>
             /\ area' = area
             /\ commitLog' = <<area.Name>>
             /\ store' = area]_vars
    /\ [](areaState = "live" =>
             /\ commitLog /= <<>>
             /\ commitLog[1] = memLog[1]
             /\ store.ZoneId = area.ZoneId)
    /\ [](\A p \in Procs : apc[p] /= "idle" =>
             /\ areaState = "live"
             /\ commitLog /= <<>>)

\* a session reads the Name of an area nobody has renamed: the record in the
\* store is the one NewArea committed
C15_Witness ==
    /\ areaState = "live"
    /\ \E p \in Procs : apc[p] = "gn_unlock" /\ ret[p] = store.Name
    /\ Len(commitLog) = 1
    /\ store = area

\* the upper-case letters of InputChars with their lower-case letters
C16_Lower == {<<"X", "x">>, <<"N", "n">>}

\* t is line s without its surrounding whitespace, in lower case
C16_Normalised(s, t) ==
    LET solid == {i \in 1..Len(s) : s[i] \notin {" ", "\t", "\n"}}
    IN  IF solid = {} THEN t = <<>>
        ELSE LET first == CHOOSE i \in solid : \A j \in solid : i <= j
                 last == CHOOSE i \in solid : \A j \in solid : j <= i
             IN  /\ Len(t) = last - first + 1
                 /\ \A k \in 1..Len(t) :
                       LET c == s[first + k - 1]
                       IN  IF \E u \in C16_Lower : u[1] = c
                           THEN <<c, t[k]>> \in C16_Lower
                           ELSE t[k] = c

\* out is what a read of line in the given mode returns
C16_Expected(mode, line, out) ==
    IF line = <<"x">> \/ line = <<"X">> THEN out = <<>>
    ELSE IF mode = RawUserInput THEN out = line
    ELSE C16_Normalised(line, out)

\* C16: a line read in raw mode is returned as typed, a line read in clean mode
\* without its surrounding whitespace and in lower case, and "x" and "X" are
\* returned as "" in both modes; so the clean reading of a line is the raw
\* reading normalised.  The reader reads in the mode of the getUserInput call in
\* progress, and that call returns the line so read.
C16_InputModes ==
    /\ rpc \in {"throttle", "sleep", "send_input"} =>
          /\ rMode = gMode
          /\ C16_Expected(gMode, typed, rInput)
          /\ C16_Normalised(GetRawUserInput(typed), GetUserInput(typed))
    /\ dpc = "ret" =>
          /\ C16_Expected(gMode, typed, input)
          /\ rMode = gMode

\* the editor's prompt, in clean mode, got the line " X\t" and returned "x"
C16_Witness ==
    /\ dpc = "ret"
    /\ site = "edit"
    /\ gMode = CleanUserInput
    /\ typed = <<" ", "X", "\t">>
    /\ input = <<"x">>

\* the upper-case and lower-case form of each letter of the lists and patterns
C17_Letters ==
    {<<"A", "a">>, <<"B", "b">>, <<"C", "c">>, <<"D", "d">>, <<"E", "e">>,
     <<"F", "f">>, <<"I", "i">>, <<"J", "j">>, <<"L", "l">>, <<"O", "o">>,
     <<"Q", "q">>, <<"R", "r">>, <<"S", "s">>, <<"T", "t">>, <<"U", "u">>,
     <<"V", "v">>}

\* characters c and d are the same letter
C17_SameChar(c, d) ==
    \/ c = d
    \/ <<c, d>> \in C17_Letters
    \/ <<d, c>> \in C17_Letters

\* the first n characters of s are p, whatever the case
C17_Starts(s, p) ==
    /\ Len(p) <= Len(s)
    /\ \A k \in 1..Len(p) : C17_SameChar(s[k], p[k])

\* the entries (numbered from 0) equal to the pattern, and having it as a prefix
C17_Equal == {i \in 0..(Len(bmList) - 1) :
                 /\ Len(bmList[i + 1]) = Len(bmPattern)
                 /\ C17_Starts(bmList[i + 1], bmPattern)}
C17_Prefixed == {i \in 0..(Len(bmList) - 1) : C17_Starts(bmList[i + 1], bmPattern)}

C18_NameTaken ==
    /\ AtReturn("main")
    /\ HasSlashPrefix(input)
    /\ Cmd.command = W_zone
    /\ Len(Cmd.args) = 2
    /\ Cmd.args[1] \in {W_new, W_rename}
    /\ \E i \in 1..Len(zones) : zones[i] = Cmd.args[2]

\* C18: "/zone new <name>" and "/zone rename <name>" are refused with the error
\* "A zone with that name already exists", creating and renaming nothing, when
\* a zone of that name exists; hence no two zones ever have the same name.
C18_ZoneNamesUnique ==
    /\ [](\A i, j \in 1..Len(zones) : zones[i] = zones[j] => i = j)
    /\ [][C18_NameTaken =>
              /\ written' = <<Item("error", "A zone with that name already exists")>>
              /\ UNCHANGED <<zones, roomZone, myZone, roomOf>>]_vars

\* the reader is at the connection: about to write the prompt, reading, or
\* holding the line it has read
C20_AtConnection == rpc \in {"read", "reading", "throttle", "sleep", "send_input"}

\* C20: the reader reads from the connection only in response to a
\* getUserInput request: it is at the connection only while the dispatcher
\* waits inside a getUserInput call, the reads never exceed the calls (at most
\* one read more than the lines returned, and only while a call waits for it),
\* each call returns the line read for its own request, in the mode of the
\* request (the k-th return gives the k-th line read), and once the session has
\* ended the reader reads no more.
C20_ReadsOnRequest ==
    /\ [](C20_AtConnection => dpc = "select")
    /\ [](nAccept <= nReads /\ nReads <= nAccept + 1)
    /\ [](nReads = nAccept + 1 =>
              /\ rpc \in {"throttle", "sleep", "send_input"}
              /\ dpc = "select"
              /\ rInput = InputFor(gMode, typed))
    /\ [][nAccept' /= nAccept =>
              /\ nAccept' = nAccept + 1
              /\ nReads' = nAccept'
              /\ dpc = "select" /\ dpc' = "ret"
              /\ rpc = "send_input"
              /\ input' = InputFor(gMode, typed)
              /\ typed' = typed]_vars
    /\ [][nReads' /= nReads =>
              /\ nReads' = nReads + 1
              /\ nReads = nAccept
              /\ dpc = "select"]_vars
    /\ [](Ended => rpc \notin {"read", "reading"})
    /\ [][Ended => nReads' = nReads /\ typed' = typed]_vars

\* the second getUserInput call has returned the second line read, in the mode
\* it asked for, while the reader waits for the next request
C20_Witness ==
    /\ dpc = "ret"
    /\ nAccept = 2
    /\ nReads = 2
    /\ gMode = CleanUserInput
    /\ typed = L_N
    /\ input = <<"n">>
    /\ rpc = "wait_mode"

\* the dispatcher is inside a getUserInput call
C21_InCall == dpc \in {"send_mode", "send_prompt", "select"}

\* the reader sleeps and time passes
C21_Sleeping == rpc = "sleep" /\ sleepLeft > 0

\* C21: the reader and the dispatcher never block on each other: before the
\* session ends, one of the two can take a step, the connection can answer the
\* read in progress, or the reader sleeps out its throttle; and, every read of
\* the connection returning or failing, every getUserInput call returns a line
\* or re-raises the reader's failure.
C21_NoDeadlock ==
    /\ [](~Ended =>
             \/ ENABLED <<DispatcherStep /\ UNCHANGED restOfSession>>_vars
             \/ ENABLED <<ReaderStep /\ UNCHANGED restOfSession>>_vars
             \/ ENABLED <<ConnectionStep /\ UNCHANGED restOfSession>>_vars
             \/ C21_Sleeping)
    /\ [](rpc = "reading" => ENABLED <<ConnectionStep /\ UNCHANGED restOfSession>>_vars)
    /\ C21_InCall ~> (dpc = "ret" \/ (dpc = "panicked" /\ quitMessage = rFail))

\* the third call has returned its line after the reader slept out its throttle
C21_Witness ==
    /\ dpc = "ret"
    /\ nAccept = 3
    /\ nReads = 3
    /\ site = "menu"
    /\ span >= 2 * Delay

\* Exec has started and has not ended
C22_Running == dpc \notin {"start", "returned", "panicked"}

\* the session's mailbox enters or leaves the registry
C22_Changes == (Me \in registered) /= (Me \in registered')

\* C22: the session's mailbox is registered once, when Exec starts, and
\* unregistered once, by the step that ends Exec, whether Exec returns or
\* panics with the reader's failure; while the session runs it stays
\* registered, and the mailbox of an ended session is not in the registry.
C22_RegisteredWhileRunning ==
    /\ [](dpc = "start" => Me \notin registered)
    /\ [](C22_Running => Me \in registered)
    /\ [](Ended => Me \notin registered /\ mailbox[Me] = <<>>)
    /\ [][C22_Changes =>
              \/ dpc = "start" /\ C22_Running' /\ Me \in registered'
              \/ C22_Running /\ Ended' /\ Me \notin registered']_vars
    /\ [][dpc' /= dpc =>
              /\ dpc' /= "start"
              /\ ~Ended
              /\ (dpc' = "returned" => dpc = "ret" /\ site = "main")
              /\ (dpc' = "panicked" => dpc = "select" /\ quitMessage' /= None)]_vars

\* the session has returned after it printed an event, its mailbox is out of
\* the registry and the mailbox of another, running session is still in it
C22_Witness ==
    /\ dpc = "returned"
    /\ rendered /= <<>>
    /\ Me \notin registered
    /\ "B" \in registered
    /\ "B" \notin gone

\* the dispatcher processes the oldest event of its mailbox
C23_EventStep ==
    /\ dpc = "select"
    /\ mailbox[Me] /= <<>>
    /\ rendered' /= rendered

\* the event being processed
C23_Event == Head(mailbox[Me])

\* the event being processed is an update of the room the session is in
C23_OwnRoomUpdate ==
    /\ C23_Event.type = RoomUpdateEventType
    /\ C23_Event.Room.id = roomOf[Me]

\* C23: processing an event replaces the session's cached room by the event's
\* room when the event is a room update for the session's current room, and
\* leaves the cached room as it was for every other event; it never changes the
\* cached zone nor the room the session is in.  An event rendered as the empty
\* string prints nothing and does not print the prompt again; any other event
\* is printed and the prompt after it.
C23_CacheRefresh ==
    /\ [][C23_EventStep =>
              /\ IF C23_OwnRoomUpdate
                 THEN roomCopy' = C23_Event.Room.rev
                 ELSE roomCopy' = roomCopy
              /\ myZone' = myZone
              /\ roomOf' = roomOf
              /\ IF C23_Event.text = <<>>
                 THEN written' = written
                 ELSE /\ Len(written') = Len(written) + 3
                      /\ written'[Len(written') - 2].kind = "clear"
                      /\ written'[Len(written') - 1].kind = "line"
                      /\ written'[Len(written')] = Item("prompt", gPrompt)]_vars
    /\ [][roomCopy' /= roomCopy => C23_EventStep /\ C23_OwnRoomUpdate]_vars

\* the session holds the room of the second event it processed, an update of
\* its room rendered as ""; nothing was printed for either event
C23_Witness ==
    /\ Len(rendered) = 2
    /\ roomCopy = 2
    /\ written = <<Item("line", "Welcome"), Item("room", "R1"), Item("prompt", MainPrompt)>>
    /\ dpc = "select"

\* the line returned to the top-level loop is a whisper
C24_Whisper ==
    /\ AtReturn("main")
    /\ HasSlashPrefix(input)
    /\ Cmd.command \in C_whisper

\* the names of the characters
C24_Names == {<<<<"a">>, "A">>, <<<<"b">>, "B">>, <<<<"c">>, "C">>}

\* the character the whisper names, None when there is none
C24_Named ==
    IF Len(Cmd.args) >= 1 /\ \E p \in C24_Names : p[1] = Cmd.args[1]
    THEN (CHOOSE p \in C24_Names : p[1] = Cmd.args[1])[2]
    ELSE None

\* the session goes on: it calls getUserInput again from the top-level loop
C24_Continues ==
    /\ dpc' = "send_mode"
    /\ site' = "main"
    /\ quitMessage' = None
    /\ Me \in registered'

\* C24: a whisper publishes only when the character it names exists and is
\* online when the command checks it, and then to that one character; when
\* the character does not exist or is offline the session prints one error,
\* publishes nothing and goes on.  When the target has gone offline between
\* the check and the publish, the publish changes no mailbox, and the sender
\* goes on all the same.
C24_WhisperTarget ==
    /\ [][(C24_Whisper /\ dpc' /= dpc) =>
              IF Len(Cmd.args) >= 2 /\ C24_Named /= None /\ C24_Named \in registered
              THEN /\ dpc' = "tell"
                   /\ targetChar' = C24_Named
                   /\ UNCHANGED <<mailbox, published, registered>>
              ELSE /\ Len(written') = 1
                   /\ written'[1].kind = "error"
                   /\ UNCHANGED <<mailbox, published, sent, targetChar>>
                   /\ C24_Continues]_vars
    /\ [][published' /= published =>
              /\ dpc = "tell"
              /\ published' = published + 1
              /\ C24_Continues
              /\ written' = <<>>
              /\ \A a \in Actors \ {targetChar} : mailbox'[a] = mailbox[a]
              /\ IF targetChar \in registered
                 THEN /\ Len(mailbox'[targetChar]) = Len(mailbox[targetChar]) + 1
                      /\ LET e == mailbox'[targetChar][Len(mailbox'[targetChar])]
                         IN  /\ e.type = "tell"
                             /\ e.from = Me
                             /\ e.to = targetChar
                             /\ e.text /= <<>>
                 ELSE mailbox' = mailbox]_vars
    /\ [](dpc = "tell" => targetChar \in Actors)
    /\ [][(dpc = "tell" /\ dpc' /= dpc) => published' = published + 1]_vars

\* B was online when the whisper checked it and has gone offline before the
\* whisper is told
C24_Witness ==
    /\ dpc = "tell"
    /\ targetChar = "B"
    /\ "B" \in gone
    /\ "B" \notin registered
    /\ typed = WL_w_b_hi

====
